---- MODULE Spec2Model ----
(***************************************************************************)
(* Verification model of the tiled raster-to-polygon detection pipeline of *)
(* KhananNetra_backend (python-backend).                                   *)
(*                                                                         *)
(*   SpecGrid    TileFetchingService.calculate_tile_grid                   *)
(*   SpecFetch   TileFetchingService.fetch_all_tiles_realtime              *)
(*   SpecMosaic  analysis_realtime.build_mosaic_from_tiles                 *)
(*   SpecInfer   ml_inference_subprocess.main (patch inference, blending)  *)
(*   SpecBlend   the add step of main under any order of the patches       *)
(*   SpecThresh  process_prediction_to_polygons, thresholding              *)
(*   SpecVec     postprocess.process_prediction_to_polygons                *)
(*   SpecPipe    analysis_realtime.process_analysis_realtime               *)
(*   SpecStages  the orchestrator together with the inference subprocess   *)
(*   SpecService earth_engine_service.get_earth_engine_service, 2 threads  *)
(*                                                                         *)
(* Geographic coordinates are integers in micro-degrees (grid) or in units *)
(* of 1e-7 degree (vectorizer); weights are integers in thousandths.       *)
(***************************************************************************)
EXTENDS Integers, Sequences, FiniteSets, TLC

VARIABLES
    \* ---- calculate_tile_grid ----
    g_pc,        \* "idle" | "outer" | "inner" | "done" | "raised" | "limited"
    g_in,        \* the call's input: geometry type and bounding box
    g_loc,       \* the locals: lat, lon, row, col, tile_id, tile_deg_*, extended_*
    g_tiles,     \* the list `tiles`
    \* ---- ml_inference_subprocess.main ----
    i_pc,        \* position in main()
    i_in,        \* the image shape H, W, tile_index and the scoring stub
    i_loc,       \* pad_H, pad_W and the loop position y, x
    patch_count, \* patches accumulated so far
    full_mask_prob,     \* the cropped, normalised surface, thousandths
    batch_coords,       \* the pending batch (batch_patches is parallel to it)
    prediction_canvas,  \* accumulated weighted predictions, thousandths
    weight_canvas,      \* accumulated weights, thousandths
    i_exc,       \* the exception in flight or caught, None if none
    i_out,       \* the JSON document printed on stdout, None before
    \* ---- process_prediction_to_polygons ----
    v_pc,        \* "idle" | "returned"
    v_in,        \* the arguments of the latest call
    v_out,       \* the feature collection the latest call returned
    v_prev,      \* the features returned by the call before it, if any
    \* ---- process_prediction_to_polygons, STEP 1 (thresholding) ----
    t_pc,        \* "idle" | "thresholded" | "returned" | "morphology"
    t_in,        \* prob_map, threshold, use_adaptive_threshold
    bin_mask,    \* the binary mask, one 0/1 entry per pixel
    adaptive_thresh,  \* the cutoff reported as threshold_used
    t_out,       \* the collection returned at line 140, None otherwise
    \* ---- start_analysis_realtime / process_analysis_realtime ----
    p_pc,        \* position of the one analysis in the orchestrator
    analysis_results,  \* the analysis's entry of the dict, <<>> before /start
    p_loc,       \* the locals: tiles, all_tiles, the cache, mosaic_result
    p_exc,       \* the exception in flight or caught, None if none
    \* ---- build_mosaic_from_tiles ----
    m_pc,        \* "idle" | "returned" | "raised"
    m_in,        \* tile_data_list
    m_out,       \* the returned mosaic, or the ValueError raised
    \* ---- TileFetchingService.fetch_all_tiles_realtime ----
    f_pc,        \* "idle" | "running" | "returned"
    f_tiles,     \* `tiles` in grid order, each with its download's outcome
    futures,     \* the submitted downloads as_completed has not yet yielded
    fetched_tiles,      \* the ids of the tiles appended to `fetched_tiles`
    f_6band_data,       \* the local list tile_6band_data of the call
    cached_6band_data,  \* self.cached_6band_data
    \* ---- get_earth_engine_service, two analysis worker threads ----
    s_pc,        \* per thread: the line it is about to execute
    s_ret,       \* per thread: what its latest call returned
    earth_engine_service,  \* the module global _earth_engine_service
    init_lock,             \* the module global _init_lock
    is_initializing,       \* the module global _is_initializing
    instances    \* EarthEngineService objects constructed so far

gridVars == <<g_pc, g_in, g_loc, g_tiles>>
inferVars == <<i_pc, i_in, i_loc, patch_count, batch_coords,
               prediction_canvas, weight_canvas, full_mask_prob, i_exc, i_out>>

vecVars == <<v_pc, v_in, v_out, v_prev>>

mosaicVars == <<m_pc, m_in, m_out>>

threshVars == <<t_pc, t_in, bin_mask, adaptive_thresh, t_out>>

pipeVars == <<p_pc, analysis_results, p_loc, p_exc>>

fetchVars == <<f_pc, f_tiles, futures, fetched_tiles, f_6band_data,
               cached_6band_data>>

svcVars == <<s_pc, s_ret, earth_engine_service, init_lock, is_initializing,
             instances>>

vars == <<gridVars, inferVars, vecVars, mosaicVars, threshVars, pipeVars,
          fetchVars, svcVars>>

None == "None"

\* An optional value that is compared with values of another type: the empty
\* tuple for None, a 1-tuple for a value.
Nothing == <<>>
Some(x) == <<x>>

\* ANALYSIS_EXECUTOR has max_workers = 2 (analysis_realtime.py line 184)
Threads == {1, 2}

\* calculate_tile_grid has no locals: before the call, and after
\* geometry_to_ee_polygon raised
NoGridLocals == [row |-> 0, col |-> 0, tile_id |-> 0]

\* No call has been made yet: every component is idle.
Init ==
    /\ g_pc = "idle"
    /\ g_in = [type |-> None]
    /\ g_loc = NoGridLocals
    /\ g_tiles = <<>>
    /\ i_pc = "idle"
    /\ i_in = None
    /\ i_loc = None
    /\ patch_count = 0
    /\ batch_coords = <<>>
    /\ prediction_canvas = <<>>
    /\ weight_canvas = <<>>
    /\ full_mask_prob = <<>>
    /\ i_exc = None
    /\ i_out = None
    /\ v_pc = "idle"
    /\ v_in = None
    /\ v_out = None
    /\ v_prev = <<>>
    /\ m_pc = "idle"
    /\ m_in = <<>>
    /\ m_out = None
    /\ t_pc = "idle"
    /\ t_in = None
    /\ bin_mask = <<>>
    /\ adaptive_thresh = 0
    /\ t_out = None
    /\ p_pc = "idle"
    /\ analysis_results = <<>>
    /\ p_loc = None
    /\ p_exc = Nothing
    /\ f_pc = "idle"
    /\ f_tiles = <<>>
    /\ futures = {}
    /\ fetched_tiles = <<>>
    /\ f_6band_data = <<>>
    /\ cached_6band_data = <<>>
    /\ s_pc = [t \in Threads |-> "idle"]
    /\ s_ret = [t \in Threads |-> Nothing]
    /\ earth_engine_service = Nothing
    /\ init_lock = None
    /\ is_initializing = FALSE
    /\ instances = 0

Min2(a, b) == IF a < b THEN a ELSE b
Max2(a, b) == IF a > b THEN a ELSE b

(***************************************************************************)
(*            PatchInferenceEngine: ml_inference_subprocess.main           *)
(***************************************************************************)

\* patch_size, scaled down from 256 so that the canvases stay enumerable
PatchSize == 4
\* overlap = 0.5, in percent
OverlapPct == 50
\* batch_size
BatchSize == 4
\* the largest image height and width drawn
MaxDim == 5

\* step = int(patch_size * (1 - overlap))
Step == (PatchSize * (100 - OverlapPct)) \div 100

\* ceil(n / d) for positive d
CeilDiv(n, d) == (n + d - 1) \div d

\* Mutant of the padding: the trailing patch is missing, the padded size is
\* the next multiple of step.
PadOf_toStepMultiple(n) == CeilDiv(n, Step) * Step - n

\* pad = ceil(n / step) * step + patch_size - n
PadOf(n) == CeilDiv(n, Step) * Step + PatchSize - n

\* floor of the square root
RECURSIVE ISqrt(_)
ISqrt(v) ==
    IF v < 2 THEN v
    ELSE LET s == 2 * ISqrt(v \div 4)
         IN IF (s + 1) * (s + 1) <= v THEN s + 1 ELSE s

\* np.clip
Clip(v, lo, hi) == IF v < lo THEN lo ELSE IF v > hi THEN hi ELSE v

\* Mutant of the weight map: the lower clip bound is 0 instead of 0.1.
WeightAt_clipZero(yy, xx) ==
    LET center == PatchSize \div 2
        d2 == (xx - center) * (xx - center) + (yy - center) * (yy - center)
        m2 == 2 * center * center
    IN Clip(1000 - ISqrt((d2 * 1000000) \div m2), 0, 1000)

\* create_gaussian_weight_map(patch_size)[yy, xx], in thousandths:
\* clip(1 - dist_from_center / max_dist, 0.1, 1.0)
WeightAt(yy, xx) ==
    LET center == PatchSize \div 2
        d2 == (xx - center) * (xx - center) + (yy - center) * (yy - center)
        m2 == 2 * center * center
    IN Clip(1000 - ISqrt((d2 * 1000000) \div m2), 100, 1000)

patch_weight ==
    [c \in (0..(PatchSize - 1)) \X (0..(PatchSize - 1)) |-> WeightAt(c[1], c[2])]

\* The scoring stubs standing for model.predict on one patch: the value, in
\* {0, 1}, that the stub predicts for every pixel of the patch at (y, x).
Scorers == {"zeros", "ones", "checker"}

ScoreOf(scorer, y, x) ==
    CASE scorer = "zeros" -> 0
      [] scorer = "ones" -> 1
      [] OTHER -> ((y + x) \div Step) % 2

InferInputs == [H : 1..MaxDim, W : 1..MaxDim, tile_index : {0}, scorer : Scorers]

PaddedH == i_in.H + i_loc.pad_H
PaddedW == i_in.W + i_loc.pad_W

\* Lines 195-246: read the input, pad, allocate the zero canvases.
InferStart ==
    /\ i_pc = "idle"
    /\ \E inp \in InferInputs :
        LET pad_H == PadOf(inp.H)
            pad_W == PadOf(inp.W)
            cells == (0..(inp.H + pad_H - 1)) \X (0..(inp.W + pad_W - 1))
        IN /\ i_in' = inp
           /\ i_loc' = [pad_H |-> pad_H, pad_W |-> pad_W, y |-> 0, x |-> 0]
           /\ prediction_canvas' = [c \in cells |-> 0]
           /\ weight_canvas' = [c \in cells |-> 0]
    /\ i_pc' = "loop"
    /\ patch_count' = 0
    /\ batch_coords' = <<>>
    /\ UNCHANGED <<full_mask_prob, i_exc, i_out>>

\* The loop position after (y, x) in the two nested range() loops, and the
\* pc there: the next column, the next row, or past the loops.
AdvanceLoop ==
    IF i_loc.x + Step <= PaddedW - PatchSize
    THEN /\ i_loc' = [i_loc EXCEPT !.x = i_loc.x + Step]
         /\ i_pc' = "loop"
    ELSE IF i_loc.y + Step <= PaddedH - PatchSize
    THEN /\ i_loc' = [i_loc EXCEPT !.x = 0, !.y = i_loc.y + Step]
         /\ i_pc' = "loop"
    ELSE /\ UNCHANGED i_loc
         /\ i_pc' = "flush"

\* Lines 247-252: extract the patch at (y, x) and append it to the batch;
\* a full batch goes to model.predict before the loop advances.
ExtractPatch ==
    /\ i_pc = "loop"
    /\ batch_coords' = Append(batch_coords, <<i_loc.y, i_loc.x>>)
    /\ IF Len(batch_coords) + 1 >= BatchSize
       THEN i_pc' = "predict" /\ UNCHANGED i_loc
       ELSE AdvanceLoop
    /\ UNCHANGED <<i_in, patch_count, prediction_canvas, weight_canvas,
                   full_mask_prob, i_exc, i_out>>

\* The patches of `coords` whose region contains the canvas cell c
Covering(coords, c) ==
    {k \in 1..Len(coords) :
        /\ coords[k][1] <= c[1] /\ c[1] < coords[k][1] + PatchSize
        /\ coords[k][2] <= c[2] /\ c[2] < coords[k][2] + PatchSize}

RECURSIVE SumOver(_, _)
SumOver(S, f) ==
    IF S = {} THEN 0
    ELSE LET k == CHOOSE e \in S : TRUE IN f[k] + SumOver(S \ {k}, f)

\* The canvases are float32 arrays: every `+=` stores the sum rounded to the
\* significand.  Values are integers in thousandths and the 24 bits of
\* float32 are scaled down with them.
MantissaBits == 8

\* The number of bits of v
BitLen(v) == CHOOSE n \in 0..30 : v < 2 ^ n /\ (n = 0 \/ 2 ^ (n - 1) <= v)

\* The spacing of the representable values around v
Ulp(v) == IF BitLen(v) <= MantissaBits THEN 1 ELSE 2 ^ (BitLen(v) - MantissaBits)

\* np.float32(v): round to nearest, ties to even
Float32(v) ==
    LET u == Ulp(v)
        q == v \div u
        r == v % u
    IN IF 2 * r < u THEN q * u
       ELSE IF 2 * r > u THEN (q + 1) * u
       ELSE IF q % 2 = 0 THEN q * u ELSE (q + 1) * u

\* What the patch at pos adds to the cell c of a canvas
Contribution(scorer, pos, c, pred) ==
    LET w == patch_weight[<<c[1] - pos[1], c[2] - pos[2]>>]
    IN IF pred THEN ScoreOf(scorer, pos[1], pos[2]) * w ELSE w

\* The value of the cell c after the patches of `coords` have been added to
\* it one after the other, starting from v
RECURSIVE AddInOrder(_, _, _, _, _)
AddInOrder(v, coords, scorer, c, pred) ==
    IF coords = <<>> THEN v
    ELSE LET pos == Head(coords)
             covers == /\ pos[1] <= c[1] /\ c[1] < pos[1] + PatchSize
                       /\ pos[2] <= c[2] /\ c[2] < pos[2] + PatchSize
         IN AddInOrder(
                IF covers
                THEN Float32(v + Contribution(scorer, pos, c, pred))
                ELSE v,
                Tail(coords), scorer, c, pred)

\* Lines 260-265 / 288-293: canvas[yy:yy+ps, xx:xx+ps] += contribution, for
\* every (yy, xx) of the batch in turn; `pred` says whether the contribution
\* is pred_patch * patch_weight or patch_weight alone.
Accumulated(canvas, coords, pred) ==
    [c \in DOMAIN canvas |->
        AddInOrder(canvas[c], coords, i_in.scorer, c, pred)]

\* Mutant of the full-batch step: the batch is not cleared after it has been
\* accumulated, so its patches are accumulated again with the next batch.
PredictBatch_batchKept ==
    /\ i_pc = "predict"
    /\ prediction_canvas' = Accumulated(prediction_canvas, batch_coords, TRUE)
    /\ weight_canvas' = Accumulated(weight_canvas, batch_coords, FALSE)
    /\ patch_count' = patch_count + Len(batch_coords)
    /\ batch_coords' = batch_coords
    /\ AdvanceLoop
    /\ UNCHANGED <<i_in, full_mask_prob, i_exc, i_out>>

\* Lines 253-272: model.predict on a full batch succeeds; accumulate it,
\* clear the batch and go on with the loop.
PredictBatch ==
    /\ i_pc = "predict"
    /\ prediction_canvas' = Accumulated(prediction_canvas, batch_coords, TRUE)
    /\ weight_canvas' = Accumulated(weight_canvas, batch_coords, FALSE)
    /\ patch_count' = patch_count + Len(batch_coords)
    /\ batch_coords' = <<>>
    /\ AdvanceLoop
    /\ UNCHANGED <<i_in, full_mask_prob, i_exc, i_out>>

\* Lines 274-277: model.predict raises on a full batch.
PredictBatchRaises ==
    /\ i_pc = "predict"
    /\ i_exc' = "RuntimeError: Inference failed on batch"
    /\ i_pc' = "raised"
    /\ UNCHANGED <<i_in, i_loc, patch_count, batch_coords, prediction_canvas,
                   weight_canvas, full_mask_prob, i_out>>

\* Mutant of the final flush: a failure of the final batch is logged and
\* swallowed, and the run goes on with the patches scored so far.
FlushFinalRaises_swallowed ==
    /\ i_pc = "flush"
    /\ batch_coords # <<>>
    /\ i_exc' = "RuntimeError: Inference failed on final batch"
    /\ i_pc' = "normalize"
    /\ UNCHANGED <<i_in, i_loc, patch_count, batch_coords, prediction_canvas,
                   weight_canvas, full_mask_prob, i_out>>

\* Lines 279-297: flush the remaining patches, if any, and accumulate them.
FlushFinal ==
    /\ i_pc = "flush"
    /\ prediction_canvas' = Accumulated(prediction_canvas, batch_coords, TRUE)
    /\ weight_canvas' = Accumulated(weight_canvas, batch_coords, FALSE)
    /\ patch_count' = patch_count + Len(batch_coords)
    /\ batch_coords' = <<>>
    /\ i_pc' = "normalize"
    /\ UNCHANGED <<i_in, i_loc, full_mask_prob, i_exc, i_out>>

\* Lines 299-302: model.predict raises on the final partial batch.
FlushFinalRaises ==
    /\ i_pc = "flush"
    /\ batch_coords # <<>>
    /\ i_exc' = "RuntimeError: Inference failed on final batch"
    /\ i_pc' = "raised"
    /\ UNCHANGED <<i_in, i_loc, patch_count, batch_coords, prediction_canvas,
                   weight_canvas, full_mask_prob, i_out>>

\* Lines 307-312: zero weights become 1, divide, crop to H x W.
Normalize ==
    /\ i_pc = "normalize"
    /\ weight_canvas' =
         [c \in DOMAIN weight_canvas |->
            IF weight_canvas[c] = 0 THEN 1 ELSE weight_canvas[c]]
    /\ prediction_canvas' =
         [c \in DOMAIN prediction_canvas |->
            (prediction_canvas[c] * 1000) \div weight_canvas'[c]]
    /\ full_mask_prob' =
         [c \in (0..(i_in.H - 1)) \X (0..(i_in.W - 1)) |->
            prediction_canvas'[c]]
    /\ i_pc' = "postprocess"
    /\ UNCHANGED <<i_in, i_loc, patch_count, batch_coords, i_exc, i_out>>

RECURSIVE MaxOver(_, _)
MaxOver(S, f) ==
    IF S = {} THEN 0
    ELSE LET k == CHOOSE e \in S : TRUE
             m == MaxOver(S \ {k}, f)
         IN IF f[k] > m THEN f[k] ELSE m

\* Lines 314-487: smoothing, vectorization, statistics and the success
\* document.  The values computed by scipy, cv2 and the vectorizer from
\* full_mask_prob are carried as the surface they are computed from.
EmitResult ==
    /\ i_pc = "postprocess"
    /\ i_out' =
         [success |-> TRUE,
          tile_index |-> i_in.tile_index,
          total_pixels |-> i_in.H * i_in.W,
          mask_shape |-> <<i_in.H, i_in.W>>,
          max_prediction |-> MaxOver(DOMAIN full_mask_prob, full_mask_prob),
          mean_prediction |->
              SumOver(DOMAIN full_mask_prob, full_mask_prob)
                  \div (i_in.H * i_in.W),
          mine_blocks |-> <<"vectorized", full_mask_prob>>,
          geojson |-> <<"vectorized", full_mask_prob>>,
          probability_map_base64 |-> <<"png", full_mask_prob>>]
    /\ i_pc' = "exit0"
    /\ UNCHANGED <<i_in, i_loc, patch_count, batch_coords, prediction_canvas,
                   weight_canvas, full_mask_prob, i_exc>>

\* Lines 489-498: the outer handler prints the failure document and exits 1.
HandleException ==
    /\ i_pc = "raised"
    /\ i_out' = [success |-> FALSE, error |-> i_exc,
                 tile_index |-> i_in.tile_index]
    /\ i_pc' = "exit1"
    /\ UNCHANGED <<i_in, i_loc, patch_count, batch_coords, prediction_canvas,
                   weight_canvas, full_mask_prob, i_exc>>

NextInfer ==
    \/ InferStart /\ UNCHANGED <<gridVars, vecVars, mosaicVars, threshVars,
                                 pipeVars, fetchVars, svcVars>>
    \/ ExtractPatch /\ UNCHANGED <<gridVars, vecVars, mosaicVars, threshVars,
                                   pipeVars, fetchVars, svcVars>>
    \/ PredictBatch /\ UNCHANGED <<gridVars, vecVars, mosaicVars, threshVars,
                                   pipeVars, fetchVars, svcVars>>
    \/ PredictBatchRaises /\ UNCHANGED <<gridVars, vecVars, mosaicVars,
                                         threshVars, pipeVars, fetchVars, svcVars>>
    \/ FlushFinal /\ UNCHANGED <<gridVars, vecVars, mosaicVars, threshVars,
                                 pipeVars, fetchVars, svcVars>>
    \/ FlushFinalRaises /\ UNCHANGED <<gridVars, vecVars, mosaicVars,
                                       threshVars, pipeVars, fetchVars, svcVars>>
    \/ Normalize /\ UNCHANGED <<gridVars, vecVars, mosaicVars, threshVars,
                                pipeVars, fetchVars, svcVars>>
    \/ EmitResult /\ UNCHANGED <<gridVars, vecVars, mosaicVars, threshVars,
                                 pipeVars, fetchVars, svcVars>>
    \/ HandleException /\ UNCHANGED <<gridVars, vecVars, mosaicVars,
                                      threshVars, pipeVars, fetchVars, svcVars>>

\* ---- properties of the inference run ----

\* range(0, padded - patch_size + 1, step)
StartsOf(padded) ==
    {k * Step : k \in 0..((padded - PatchSize) \div Step)}

\* The window positions of the two nested loops
WindowPositions == StartsOf(PaddedH) \X StartsOf(PaddedW)

CoveredBy(c, pos) ==
    /\ pos[1] <= c[1] /\ c[1] < pos[1] + PatchSize
    /\ pos[2] <= c[2] /\ c[2] < pos[2] + PatchSize

\* C2: after every patch has been accumulated and before the division,
\* weight_canvas is strictly positive at every canvas cell covered by at
\* least one window, and every pixel of the original H x W region is covered
\* by at least one window (so none of them has weight zero).
C2_WeightPositive ==
    i_pc = "normalize" =>
        /\ \A c \in DOMAIN weight_canvas :
              (\E pos \in WindowPositions : CoveredBy(c, pos))
                  => weight_canvas[c] > 0
        /\ \A c \in (0..(i_in.H - 1)) \X (0..(i_in.W - 1)) :
              /\ \E pos \in WindowPositions : CoveredBy(c, pos)
              /\ weight_canvas[c] > 0

\* All patches of an image needing several windows and a final partial
\* batch have been accumulated, with no scoring failure.
C2_Witness ==
    /\ i_pc = "normalize"
    /\ i_exc = None
    /\ patch_count = Cardinality(WindowPositions)
    /\ patch_count > BatchSize
    /\ patch_count % BatchSize # 0

\* C20: pad_H and pad_W are not negative and the padded height and width
\* are patch_size plus a whole number (>= 0) of steps, so the window
\* starting at (padded - patch_size) is a position of the sliding grid, it
\* ends at the padded edge, and when the loops are done every cell of the
\* padded canvas has been accumulated into by some window.
C20_PaddingArithmetic ==
    i_pc # "idle" =>
        /\ i_loc.pad_H >= 0 /\ i_loc.pad_W >= 0
        /\ PaddedH >= PatchSize /\ PaddedW >= PatchSize
        /\ (PaddedH - PatchSize) % Step = 0
        /\ (PaddedW - PatchSize) % Step = 0
        /\ << PaddedH - PatchSize, PaddedW - PatchSize >> \in WindowPositions
        /\ \A c \in DOMAIN weight_canvas :
              /\ c[1] < PaddedH /\ c[2] < PaddedW
              /\ \E pos \in WindowPositions : CoveredBy(c, pos)
              /\ i_pc = "normalize" => weight_canvas[c] > 0

\* An image whose height is not a multiple of step and whose width is:
\* every window has been accumulated.
C20_Witness ==
    /\ i_pc = "normalize"
    /\ i_exc = None
    /\ i_in.H % Step # 0 /\ i_in.H > PatchSize
    /\ i_in.W % Step = 0
    /\ i_loc.pad_H = PatchSize + Step - (i_in.H % Step)
    /\ i_loc.pad_W = PatchSize

\* (y, x) comes before (y2, x2) in the order of the two nested loops
RowMajorBefore(a, b) == a[1] < b[1] \/ (a[1] = b[1] /\ a[2] < b[2])

\* The window positions whose patch has been extracted so far: those before
\* the loop position, and the loop position itself once it is in the batch.
ExtractedPositions ==
    {pos \in WindowPositions :
        \/ RowMajorBefore(pos, <<i_loc.y, i_loc.x>>)
        \/ i_pc # "loop" /\ pos = <<i_loc.y, i_loc.x>>}

PendingPositions == {batch_coords[k] : k \in 1..Len(batch_coords)}

\* The positions of `done` in the order of the two nested loops
RECURSIVE RowMajorSeq(_)
RowMajorSeq(done) ==
    IF done = {} THEN <<>>
    ELSE LET first == CHOOSE pos \in done :
                          \A other \in done \ {pos} : RowMajorBefore(pos, other)
         IN <<first>> \o RowMajorSeq(done \ {first})

\* The canvas in which each position of `done` has been accumulated exactly
\* once at its own region, in the order of the loops, starting from zeros.
AccumulatedOnce(done, pred) ==
    LET order == RowMajorSeq(done)
    IN [c \in DOMAIN weight_canvas |->
          AddInOrder(0, order, i_in.scorer, c, pred)]

\* C21: while no scoring call has failed, the pending batch holds distinct
\* window positions, shorter than a full batch while the loop runs, and both
\* canvases hold exactly one contribution, at its own region, of every
\* position extracted so far that is not pending; when the loops and the
\* final flush are done nothing is pending, every window position has been
\* accumulated exactly once and patch_count is the number of positions.
C21_EachWindowOnce ==
    (i_pc \in {"loop", "predict", "flush", "normalize"}) =>
        /\ PendingPositions \subseteq ExtractedPositions
        /\ Cardinality(PendingPositions) = Len(batch_coords)
        /\ i_pc = "loop" => Len(batch_coords) < BatchSize
        /\ patch_count = Cardinality(ExtractedPositions \ PendingPositions)
        /\ weight_canvas =
              AccumulatedOnce(ExtractedPositions \ PendingPositions, FALSE)
        /\ prediction_canvas =
              AccumulatedOnce(ExtractedPositions \ PendingPositions, TRUE)
        /\ i_pc = "normalize" =>
              /\ batch_coords = <<>>
              /\ ExtractedPositions = WindowPositions
              /\ patch_count = Cardinality(WindowPositions)

\* Nine windows with batches of four: two full batches and a final batch of
\* one have been accumulated, the cell (2, 2) by four windows.
C21_Witness ==
    /\ i_pc = "normalize"
    /\ i_exc = None
    /\ Cardinality(WindowPositions) = 2 * BatchSize + 1
    /\ patch_count = 2 * BatchSize + 1
    /\ Cardinality({pos \in WindowPositions : CoveredBy(<<2, 2>>, pos)}) = 4
    /\ weight_canvas[<<2, 2>>] =
          Float32(Float32(Float32(Float32(patch_weight[<<2, 2>>])
                                      + patch_weight[<<2, 0>>])
                              + patch_weight[<<0, 2>>])
                      + patch_weight[<<0, 0>>])

\* ---- the add step under another order of accumulation ----
\* The patches of one image are all scored and their add steps (lines
\* 260-265) are applied one patch at a time, each add atomically, in any
\* order: batch_coords holds the scored patches whose add is still due.

\* the most window positions of an image whose orders are enumerated
MaxBlendPatches == 6

BlendInputs ==
    {inp \in InferInputs :
        Cardinality(StartsOf(inp.H + PadOf(inp.H)))
            * Cardinality(StartsOf(inp.W + PadOf(inp.W))) <= MaxBlendPatches}

\* Lines 195-252 with every window extracted and scored, no add applied yet.
BlendStart ==
    /\ i_pc = "idle"
    /\ \E inp \in BlendInputs :
        LET pad_H == PadOf(inp.H)
            pad_W == PadOf(inp.W)
            cells == (0..(inp.H + pad_H - 1)) \X (0..(inp.W + pad_W - 1))
        IN /\ i_in' = inp
           /\ i_loc' = [pad_H |-> pad_H, pad_W |-> pad_W, y |-> 0, x |-> 0]
           /\ prediction_canvas' = [c \in cells |-> 0]
           /\ weight_canvas' = [c \in cells |-> 0]
           /\ batch_coords' =
                 RowMajorSeq(StartsOf(inp.H + pad_H) \X StartsOf(inp.W + pad_W))
    /\ i_pc' = "blend"
    /\ patch_count' = 0
    /\ UNCHANGED <<full_mask_prob, i_exc, i_out>>

\* q without its k-th entry
WithoutAt(q, k) == [j \in 1..(Len(q) - 1) |-> IF j < k THEN q[j] ELSE q[j + 1]]

\* Mutant of the add step: two adds race on the canvases and the update of
\* one of them is lost.
BlendAdd_lostUpdate ==
    /\ i_pc = "blend"
    /\ \E k \in 1..Len(batch_coords) :
        LET rest == WithoutAt(batch_coords, k)
        IN /\ prediction_canvas' =
                 Accumulated(prediction_canvas, <<batch_coords[k]>>, TRUE)
           /\ weight_canvas' =
                 Accumulated(weight_canvas, <<batch_coords[k]>>, FALSE)
           /\ patch_count' = patch_count + (IF rest = <<>> THEN 1 ELSE 2)
           /\ batch_coords' = IF rest = <<>> THEN rest ELSE Tail(rest)
           /\ i_pc' = IF batch_coords' = <<>> THEN "blended" ELSE "blend"
    /\ UNCHANGED <<i_in, i_loc, full_mask_prob, i_exc, i_out>>

\* Lines 260-265 for one scored patch, whichever of the pending ones.
BlendAdd ==
    /\ i_pc = "blend"
    /\ \E k \in 1..Len(batch_coords) :
        /\ prediction_canvas' =
              Accumulated(prediction_canvas, <<batch_coords[k]>>, TRUE)
        /\ weight_canvas' =
              Accumulated(weight_canvas, <<batch_coords[k]>>, FALSE)
        /\ batch_coords' = WithoutAt(batch_coords, k)
    /\ patch_count' = patch_count + 1
    /\ i_pc' = IF Len(batch_coords) = 1 THEN "blended" ELSE "blend"
    /\ UNCHANGED <<i_in, i_loc, full_mask_prob, i_exc, i_out>>

NextBlend ==
    \/ BlendStart /\ UNCHANGED <<gridVars, vecVars, mosaicVars, threshVars,
                                 pipeVars, fetchVars, svcVars>>
    \/ BlendAdd /\ UNCHANGED <<gridVars, vecVars, mosaicVars, threshVars,
                               pipeVars, fetchVars, svcVars>>

SpecBlend == Init /\ [][NextBlend]_vars

\* ---- properties of the add step under any order ----

\* prediction_canvas / weight_canvas if the sums were exact
ExactCanvas(pred) ==
    LET all == RowMajorSeq(WindowPositions)
    IN [c \in DOMAIN weight_canvas |->
          SumOver(Covering(all, c),
              [k \in 1..Len(all) |-> Contribution(i_in.scorer, all[k], c, pred)])]

\* The windows covering one cell, at most
MaxCover == CeilDiv(PatchSize, Step) * CeilDiv(PatchSize, Step)

\* What the roundings of the adds into one cell can amount to: half a
\* spacing for each of them
RoundingTolerance == MaxCover * (Ulp(MaxCover * patch_weight[<<PatchSize \div 2, PatchSize \div 2>>]) \div 2)

Dist(a, b) == IF a < b THEN b - a ELSE a - b

ResultKeys == {"mask_shape", "total_pixels", "max_prediction",
               "mean_prediction", "mine_blocks", "geojson",
               "probability_map_base64"}

\* C7: once the scoring call has raised, for a full batch or for the final
\* one, the run never prints a success document: it ends with exit code 1
\* and a document that reports failure with the error and holds no
\* probability surface, no mine blocks and no statistics.
C7_ScoringFailureAborts ==
    i_exc # None =>
        /\ i_pc \in {"raised", "exit1"}
        /\ i_pc = "raised" => i_out = None
        /\ i_pc = "exit1" =>
              /\ i_out.success = FALSE
              /\ i_out.error = i_exc
              /\ DOMAIN i_out \cap ResultKeys = {}

\* The final partial batch failed after earlier batches had been
\* accumulated, and the failure document has been printed.
C7_Witness ==
    /\ i_pc = "exit1"
    /\ i_exc = "RuntimeError: Inference failed on final batch"
    /\ patch_count >= BatchSize
    /\ i_out.success = FALSE

(***************************************************************************)
(*        ProbabilityVectorizer: process_prediction_to_polygons            *)
(*                                                                         *)
(* The contours cv2.findContours extracts from the cleaned mask are the    *)
(* input: each with twice its cv2.contourArea (contour areas are multiples *)
(* of one half), its number of points, the mean probability under it, and  *)
(* the simple pieces ("lobes", axis-aligned rectangles in pixel            *)
(* coordinates) its ring decomposes into: one lobe for a valid ring, none  *)
(* for a point or a line, several for a self-touching ring.                *)
(* Georeferenced coordinates are integers in units of 1e-7.                *)
(***************************************************************************)

\* the most contours one call receives
MaxContours == 3

Rect(x0, y0, w, h) == [x0 |-> x0, y0 |-> y0, w |-> w, h |-> h]

Contour(area2, npoints, conf, lobes) ==
    [area2 |-> area2, npoints |-> npoints, conf |-> conf, lobes |-> lobes]

ContourUniverse ==
    { Contour(3822, 176, 900, << Rect(10, 10, 39, 49) >>),
      Contour(3822, 176, 620, << Rect(60, 10, 39, 49) >>),
      Contour(2000, 130, 800, << Rect(10, 70, 25, 40) >>),
      Contour(3000, 250, 750, << Rect(70, 70, 20, 30), Rect(90, 100, 20, 45) >>),
      Contour(8, 8, 950, << Rect(100, 100, 2, 2) >>),
      Contour(12, 10, 560, << Rect(103, 100, 2, 3) >>),
      Contour(0, 1, 990, << >>),
      Contour(0, 6, 580, << >>) }

RECURSIVE SeqsNoRepeat(_, _)
SeqsNoRepeat(S, n) ==
    IF n = 0 THEN {<<>>}
    ELSE LET shorter == SeqsNoRepeat(S, n - 1)
         IN shorter \cup
            {Append(q, e) : q \in {r \in shorter : Len(r) = n - 1},
                            e \in S} 

ContourLists ==
    {q \in SeqsNoRepeat(ContourUniverse, MaxContours) :
        \A i, j \in 1..Len(q) : i # j => q[i] # q[j]}

\* An Affine with b = d = 0: x_geo = c + a * x, y_geo = f + e * y.
Affine(a, e, c, f) == [a |-> a, e |-> e, c |-> c, f |-> f]

\* Affine.identity(), one pixel = one unit of the CRS = 10^7 model units
AffineIdentity == Affine(10000000, 10000000, 0, 0)

\* The `transform` argument: None, a 5e-5 degree pixel, a 1e-7 degree pixel,
\* Affine.identity() passed explicitly
Transforms ==
    { Nothing,
      Some(Affine(500, -500, 770000000, 230000000)),
      Some(Affine(1, -1, 770000000, 230000000)),
      Some(AffineIdentity) }

\* The `analysis_id` argument: None, or an id as <<first 8 characters, rest>>
AnalysisIds == { Nothing, <<"9f8e7d6c", "-1111">>, <<"0a1b2c3d", "-2222">> }

VecInputs ==
    [contours : ContourLists,
     transform : Transforms,
     crs : {None, "EPSG:4326"},
     threshold : {550},
     min_area_pixels : {0, 1000},
     min_area_meters : {0, 1000},
     tile_id : {None, "mosaic"},
     analysis_id : AnalysisIds \ {<<"0a1b2c3d", "-2222">>}]

\* int(area_px): truncation of the float contour area
IntOfArea2(area2) == area2 \div 2

\* Mutant of the pixel size: it is never available.
PixelSizeArea_none(transform) == Nothing

\* Lines 199-206: abs(transform.a * transform.e), or None without a
\* transform (the identity stands for "no transform").
PixelSizeArea(transform) ==
    IF transform = AffineIdentity THEN Nothing
    ELSE LET p == transform.a * transform.e
         IN Some(IF p < 0 THEN -p ELSE p)

\* Lines 228-233: the contour's area in square metres (floor).
AreaM2(area2, pixel_size_area, crs) ==
    IF crs = "EPSG:4326"
    THEN (area2 * ((((pixel_size_area * 111) \div 1000) * 111) \div 1000))
            \div 200
    ELSE (((area2 * pixel_size_area) \div 2) \div 10000000) \div 10000000

\* Mutant of the default: a missing transform becomes a georeference of
\* 5e-5 units per pixel.
EffectiveTransform_georeferenced(transform) ==
    IF transform = Nothing THEN Affine(500, -500, 0, 0) ELSE transform[1]

\* Lines 101-103: a missing transform becomes the identity.
EffectiveTransform(transform) ==
    IF transform = Nothing THEN AffineIdentity ELSE transform[1]

\* Mutant of the pixel filter: `area_px <= min_area_pixels`.
BelowPixelFilter_inclusive(c, min_area_pixels) ==
    c.area2 <= 2 * min_area_pixels

\* Line 220: `area_px < min_area_pixels`
BelowPixelFilter(c, min_area_pixels) == c.area2 < 2 * min_area_pixels

\* Lines 225-239: `area_m2 < min_area_meters`, only with a pixel size
BelowAreaFilter(c, psa, crs, min_area_meters) ==
    psa # Nothing /\ AreaM2(c.area2, psa[1], crs) < min_area_meters

\* Lines 216-252: the filtering loop; the contour_data entries in contour
\* order.
RECURSIVE ContourData(_, _, _, _, _)
ContourData(contours, psa, crs, min_area_pixels, min_area_meters) ==
    IF contours = <<>> THEN <<>>
    ELSE LET c == Head(contours)
             rest == ContourData(Tail(contours), psa, crs,
                                 min_area_pixels, min_area_meters)
         IN IF BelowPixelFilter(c, min_area_pixels) THEN rest
            ELSE IF BelowAreaFilter(c, psa, crs, min_area_meters) THEN rest
            ELSE << [contour |-> c,
                     area_px |-> c.area2,
                     area_m2 |-> IF psa = Nothing THEN Nothing
                                 ELSE Some(AreaM2(c.area2, psa[1], crs)),
                     avg_confidence |-> c.conf] >> \o rest

\* Lines 213, 221: filtered_by_pixels
FilteredByPixels(contours, min_area_pixels) ==
    Cardinality({i \in 1..Len(contours) :
                    BelowPixelFilter(contours[i], min_area_pixels)})

\* Lines 214, 236: filtered_by_area
FilteredByArea(contours, psa, crs, min_area_pixels, min_area_meters) ==
    Cardinality({i \in 1..Len(contours) :
                    /\ ~BelowPixelFilter(contours[i], min_area_pixels)
                    /\ BelowAreaFilter(contours[i], psa, crs, min_area_meters)})

\* Inserts e behind every entry whose area is not smaller (stable).
RECURSIVE InsertDesc(_, _)
InsertDesc(sorted, e) ==
    IF sorted = <<>> THEN <<e>>
    ELSE IF Head(sorted).area_px >= e.area_px
         THEN <<Head(sorted)>> \o InsertDesc(Tail(sorted), e)
         ELSE <<e>> \o sorted

RECURSIVE SortStable(_, _)
SortStable(data, acc) ==
    IF data = <<>> THEN acc
    ELSE SortStable(Tail(data), InsertDesc(acc, Head(data)))

\* Mutant of the sort: the list is left in contour order.
SortByAreaDesc_unsorted(data) == data

\* Line 279: contour_data.sort(key=area_px, reverse=True), a stable sort
SortByAreaDesc(data) == SortStable(data, <<>>)

\* transform * (x, y)
GeoX(t, x) == t.c + t.a * x
GeoY(t, y) == t.f + t.e * y

\* A lobe in georeferenced coordinates: (minx, miny, maxx, maxy)
GeoLobe(t, r) ==
    LET xa == GeoX(t, r.x0)
        xb == GeoX(t, r.x0 + r.w)
        ya == GeoY(t, r.y0)
        yb == GeoY(t, r.y0 + r.h)
    IN << Min2(xa, xb), Min2(ya, yb), Max2(xa, xb), Max2(ya, yb) >>

\* poly.area in units of one pixel's area: w * h, or 0 under a transform
\* that collapses an axis
LobeArea(t, r) == IF t.a = 0 \/ t.e = 0 THEN 0 ELSE r.w * r.h

\* Mutant of the repair: the first polygon of the repaired geometry is kept.
LargestLobe_first(t, lobes) == lobes[1]

\* max(polys, key=area): the first lobe of the largest area
LargestLobe(t, lobes) ==
    LET best == CHOOSE i \in 1..Len(lobes) :
                    /\ \A j \in 1..Len(lobes) :
                          LobeArea(t, lobes[j]) <= LobeArea(t, lobes[i])
                    /\ \A j \in 1..(i - 1) :
                          LobeArea(t, lobes[j]) < LobeArea(t, lobes[i])
    IN lobes[best]

\* Lines 292-365: squeeze, close the ring, build the polygon, repair it,
\* drop degenerate results.  Nothing when the contour is skipped, else the
\* polygon as the rectangle of its exterior ring in pixel coordinates.
PolygonOf(t, c) ==
    IF c.npoints = 1 THEN Nothing                  \* line 297
    ELSE IF c.npoints + 1 < 4 THEN Nothing         \* line 321
    ELSE IF Len(c.lobes) = 0 THEN Nothing          \* lines 338-349
    ELSE LET r == IF Len(c.lobes) = 1 THEN c.lobes[1]
                  ELSE LargestLobe(t, c.lobes)     \* lines 342, 345
         IN IF LobeArea(t, r) = 0 THEN Nothing     \* line 359
            ELSE Some(r)

\* Lines 286-390: the raw_features list, in the order of contour_data.
RECURSIVE RawFeatures(_, _)
RawFeatures(t, data) ==
    IF data = <<>> THEN <<>>
    ELSE LET d == Head(data)
             poly == PolygonOf(t, d.contour)
             rest == RawFeatures(t, Tail(data))
         IN IF poly = Nothing THEN rest
            ELSE LET b == GeoLobe(t, poly[1])
                 IN << [geometry |-> b,
                        area_px |-> IntOfArea2(d.area_px),
                        area_m2 |-> d.area_m2,
                        avg_confidence |-> d.avg_confidence,
                        pixel_coords |-> d.contour.lobes,
                        bounds |-> b,
                        centroid_lon |-> b[1] + (b[3] - b[1]) \div 2,
                        centroid_lat |-> b[2] + (b[4] - b[2]) \div 2] >>
                    \o rest

\* round(v, 6) on a value in units of 1e-7: to the nearest multiple of 10,
\* ties to the even multiple.
Round6(v) ==
    LET q == v \div 10
        r == v % 10
    IN IF r < 5 THEN q * 10
       ELSE IF r > 5 THEN (q + 1) * 10
       ELSE IF q % 2 = 0 THEN q * 10 ELSE (q + 1) * 10

\* hashlib.sha1(s).hexdigest()[:12], as an uninterpreted injective function
\* of the hashed string
Sha1Hex12(payload) == << "sha1[:12]", payload >>

\* Mutant of the signature: the block index is part of the hashed payload.
SignaturePayload_withIndex(persistent_prefix, entry, idx) ==
    << persistent_prefix,
       << Round6(entry.centroid_lon), Round6(entry.centroid_lat) >>,
       << Round6(entry.bounds[1]), Round6(entry.bounds[2]),
          Round6(entry.bounds[3]), Round6(entry.bounds[4]) >>,
       idx >>

\* Lines 421-427: json.dumps of {"tile", "centroid", "bounds"}
SignaturePayload(persistent_prefix, entry, idx) ==
    << persistent_prefix,
       << Round6(entry.centroid_lon), Round6(entry.centroid_lat) >>,
       << Round6(entry.bounds[1]), Round6(entry.bounds[2]),
          Round6(entry.bounds[3]), Round6(entry.bounds[4]) >> >>

\* Line 412: str(tile_id) if tile_id not in (None, "") else ""
TileLabel(tile_id) == IF tile_id \in {None, ""} THEN "" ELSE tile_id

\* Mutant of the prefix: a block without a tile label has an empty prefix.
PersistentPrefix_empty(tile_id) == TileLabel(tile_id)

\* Line 414: tile_label or "global"
PersistentPrefix(tile_id) ==
    IF TileLabel(tile_id) = "" THEN "global" ELSE TileLabel(tile_id)

\* Lines 428-429
PersistentId(tile_id, entry, idx) ==
    << PersistentPrefix(tile_id), "-",
       Sha1Hex12(SignaturePayload(PersistentPrefix(tile_id), entry, idx)) >>

\* Mutant of the block code: the tile label is left out.
BlockId_noTile(tile_id, analysis_id, idx) ==
    IF analysis_id # Nothing
    THEN << analysis_id[1], "-", "B", idx >>
    ELSE << "B", idx >>

\* Lines 431-438: block_code with the optional analysis prefix
BlockId(tile_id, analysis_id, idx) ==
    LET block_code == IF TileLabel(tile_id) # ""
                      THEN << "T", TileLabel(tile_id), "B", idx >>
                      ELSE << "B", idx >>
    IN IF analysis_id # Nothing
       THEN << analysis_id[1], "-" >> \o block_code
       ELSE block_code

\* Lines 416-473: the feature of raw_features[idx]
FeatureOf(in, entry, idx) ==
    [geometry |-> entry.geometry,
     block_id |-> BlockId(in.tile_id, in.analysis_id, idx),
     block_index |-> idx,
     tile_id |-> TileLabel(in.tile_id),
     area_px |-> entry.area_px,
     avg_confidence |-> entry.avg_confidence,
     pixel_coords |-> entry.pixel_coords,
     bbox |-> entry.bounds,
     persistent_id |-> PersistentId(in.tile_id, entry, idx),
     centroid_lon |-> entry.centroid_lon,
     centroid_lat |-> entry.centroid_lat,
     area_m2 |-> entry.area_m2,
     crs |-> IF in.crs # None THEN Some(in.crs) ELSE Nothing,
     analysis_id |-> in.analysis_id]

RECURSIVE SumAreaM2(_)
SumAreaM2(raw) ==
    IF raw = <<>> THEN 0
    ELSE (IF Head(raw).area_m2 = Nothing THEN 0 ELSE Head(raw).area_m2[1])
         + SumAreaM2(Tail(raw))

\* Lines 140-148, 185-193: the collection returned without filtering_stats
EmptyCollection(threshold_used) ==
    [features |-> <<>>,
     block_count |-> 0,
     total_area_m2 |-> 0,
     threshold_used |-> threshold_used,
     filtering_stats |-> Nothing]

\* Lines 208-517 of process_prediction_to_polygons, from the extracted
\* contours to the returned collection.
ProcessPredictionToPolygons(in) ==
    LET t == EffectiveTransform(in.transform)
        psa == PixelSizeArea(t)
        total_contours == Len(in.contours)
        filtered_by_pixels == FilteredByPixels(in.contours, in.min_area_pixels)
        filtered_by_area ==
            FilteredByArea(in.contours, psa, in.crs,
                           in.min_area_pixels, in.min_area_meters)
        contour_data ==
            SortByAreaDesc(ContourData(in.contours, psa, in.crs,
                                       in.min_area_pixels, in.min_area_meters))
        raw_features == RawFeatures(t, contour_data)
        stats(kept) ==
            Some([total_detected |-> total_contours,
                  filtered_by_pixels |-> filtered_by_pixels,
                  filtered_by_area |-> filtered_by_area,
                  kept |-> kept])
    IN IF in.contours = <<>>
       THEN EmptyCollection(in.threshold)                    \* lines 184-193
       ELSE IF raw_features = <<>>
       THEN [EmptyCollection(in.threshold)                   \* 259-274, 392-407
                EXCEPT !.filtering_stats = stats(0)]
       ELSE [features |->
                [idx \in 1..Len(raw_features) |->
                    FeatureOf(in, raw_features[idx], idx)],
             block_count |-> Len(raw_features),
             total_area_m2 |-> SumAreaM2(raw_features),
             threshold_used |-> in.threshold,
             filtering_stats |-> stats(Len(raw_features))]

\* A call of process_prediction_to_polygons on the contours of a surface.
VecCall ==
    /\ v_pc = "idle"
    /\ \E in \in VecInputs :
        /\ v_in' = in
        /\ v_out' = ProcessPredictionToPolygons(in)
    /\ v_pc' = "returned"
    /\ UNCHANGED v_prev

\* The subsequences of q with one entry removed
RemoveAt(q, k) == [i \in 1..(Len(q) - 1) |-> IF i < k THEN q[i] ELSE q[i + 1]]

\* A second call for the same surface and tile under another analysis id,
\* with the same contours or with one of them gone.
VecRecall ==
    /\ v_pc = "returned"
    /\ \E contours \in {v_in.contours}
                \cup {RemoveAt(v_in.contours, k) : k \in 1..Len(v_in.contours)} :
        LET in == [v_in EXCEPT !.contours = contours,
                               !.analysis_id = <<"0a1b2c3d", "-2222">>]
        IN /\ v_in' = in
           /\ v_out' = ProcessPredictionToPolygons(in)
    /\ v_prev' = v_out.features
    /\ v_pc' = "recalled"

NextVec ==
    \/ VecCall /\ UNCHANGED <<gridVars, inferVars, mosaicVars, threshVars,
                              pipeVars, fetchVars, svcVars>>
    \/ VecRecall /\ UNCHANGED <<gridVars, inferVars, mosaicVars, threshVars,
                                pipeVars, fetchVars, svcVars>>

SpecVec == Init /\ [][NextVec]_vars

\* ---- properties of the vectorizer ----

VecReturned == v_pc \in {"returned", "recalled"}

\* C3: in every returned collection the features are in non-increasing
\* order of area_px.
C3_AreaOrdered ==
    VecReturned =>
        \A i, j \in 1..Len(v_out.features) :
            i < j => v_out.features[i].area_px >= v_out.features[j].area_px

\* Three contours given in increasing area order pass the filters, one of
\* them is skipped during vectorization, and two blocks are returned.
C3_Witness ==
    /\ VecReturned
    /\ Len(v_in.contours) = 3
    /\ v_out.filtering_stats # Nothing
    /\ v_out.filtering_stats[1].filtered_by_pixels = 0
    /\ v_out.filtering_stats[1].filtered_by_area = 0
    /\ Len(v_out.features) = 2
    /\ v_in.contours[1].area2 < v_in.contours[3].area2
    /\ v_out.features[1].area_px > v_out.features[2].area_px

\* The three things the identifier is specified to depend on: the tile
\* label, the centroid rounded to 6 decimals, the bounding box rounded to 6
\* decimals.
IdentityKey(f) ==
    << f.tile_id,
       Round6(f.centroid_lon), Round6(f.centroid_lat),
       Round6(f.bbox[1]), Round6(f.bbox[2]),
       Round6(f.bbox[3]), Round6(f.bbox[4]) >>

\* The features of the latest call and of the call before it
FeaturesOfBothCalls ==
    {v_out.features[i] : i \in 1..Len(v_out.features)}
        \cup {v_prev[i] : i \in 1..Len(v_prev)}

\* C5: any two blocks, of the same call or of two calls for the same
\* surface, that agree on tile label, rounded centroid and rounded bounding
\* box have the same persistent_id, whatever their block_index,
\* analysis_id, area or confidence; in particular a contour keeps its id
\* when another contour of the surface is gone in the second call.
C5_PersistentIdDependsOnKeyOnly ==
    VecReturned =>
        \A f, g \in FeaturesOfBothCalls :
            /\ IdentityKey(f) = IdentityKey(g)
                  => f.persistent_id = g.persistent_id
            /\ f.pixel_coords = g.pixel_coords
                  => f.persistent_id = g.persistent_id

\* Two calls returned blocks that agree on the key but differ in index,
\* analysis id, area and confidence.
C5_Witness ==
    /\ v_pc = "recalled"
    /\ \E f \in {v_prev[i] : i \in 1..Len(v_prev)} :
       \E g \in {v_out.features[i] : i \in 1..Len(v_out.features)} :
            /\ IdentityKey(f) = IdentityKey(g)
            /\ f.block_index # g.block_index
            /\ f.analysis_id # g.analysis_id
            /\ f.area_px # g.area_px
            /\ f.avg_confidence # g.avg_confidence

\* C10: every emitted block comes from a contour whose pixel area is at
\* least min_area_pixels; whenever contours were extracted the collection
\* carries filtering_stats, whose filtered_by_pixels is exactly the number
\* of contours with pixel area below min_area_pixels, and filtered_by_area
\* counts only contours that passed the pixel filter.
C10_PixelFilter ==
    VecReturned =>
        /\ \A k \in 1..Len(v_out.features) :
              \E i \in 1..Len(v_in.contours) :
                 /\ v_in.contours[i].lobes = v_out.features[k].pixel_coords
                 /\ v_in.contours[i].area2 >= 2 * v_in.min_area_pixels
                 /\ v_out.features[k].area_px = v_in.contours[i].area2 \div 2
        /\ v_in.contours # <<>> =>
              /\ v_out.filtering_stats # Nothing
              /\ v_out.filtering_stats[1].filtered_by_pixels =
                    Cardinality({i \in 1..Len(v_in.contours) :
                        v_in.contours[i].area2 < 2 * v_in.min_area_pixels})
              /\ v_out.filtering_stats[1].filtered_by_area <=
                    Cardinality({i \in 1..Len(v_in.contours) :
                        v_in.contours[i].area2 >= 2 * v_in.min_area_pixels})

\* Two contours of 4 and 1911 pixels with min_area_pixels = 1000: one
\* block, one contour rejected by the pixel filter.
C10_Witness ==
    /\ v_pc = "returned"
    /\ v_in.min_area_pixels = 1000
    /\ Len(v_in.contours) = 2
    /\ {v_in.contours[1].area2, v_in.contours[2].area2} = {8, 3822}
    /\ Len(v_out.features) = 1
    /\ v_out.features[1].area_px = 1911
    /\ v_out.filtering_stats[1].filtered_by_pixels = 1
    /\ v_out.filtering_stats[1].filtered_by_area = 0

\* The contours of the call that passed the pixel-area filter
PassedPixelFilter ==
    {i \in 1..Len(v_in.contours) :
        v_in.contours[i].area2 >= 2 * v_in.min_area_pixels}

\* Contour i of the call became a feature of the returned collection
Vectorized(i) ==
    \E k \in 1..Len(v_out.features) :
        /\ v_out.features[k].pixel_coords = v_in.contours[i].lobes
        /\ v_out.features[k].area_px = v_in.contours[i].area2 \div 2
        /\ v_out.features[k].avg_confidence = v_in.contours[i].conf

\* C12: whenever contours were extracted, the counts of the returned
\* metadata account for every one of them: total_detected equals
\* filtered_by_pixels + filtered_by_area + kept + the recorded count of
\* contours skipped during vectorization (none is recorded when the
\* metadata has no such entry).
C12_SkipsRecorded ==
    (VecReturned /\ v_in.contours # <<>>) =>
        /\ v_out.filtering_stats # Nothing
        /\ LET stats == v_out.filtering_stats[1]
               skipped == IF "skipped" \in DOMAIN stats
                          THEN stats["skipped"] ELSE 0
           IN stats.total_detected =
                 stats.filtered_by_pixels + stats.filtered_by_area
                    + stats.kept + skipped

\* C13 as stated: without a transform no feature has area_m2, nothing is
\* rejected by the square-metre filter, total_area_m2 is 0 and every
\* contour that passed the pixel-area filter is a feature.
C13_NoTransform_AsStated ==
    (VecReturned /\ v_in.transform = Nothing) =>
        /\ \A k \in 1..Len(v_out.features) :
              v_out.features[k].area_m2 = Nothing
        /\ v_out.filtering_stats # Nothing =>
              v_out.filtering_stats[1].filtered_by_area = 0
        /\ v_out.total_area_m2 = 0
        /\ \A i \in PassedPixelFilter : Vectorized(i)

\* C13, amended: without a transform no feature has area_m2, nothing is
\* rejected by the square-metre filter, total_area_m2 is 0 and every
\* contour that passed the pixel-area filter and is not degenerate (at
\* least three points, a ring enclosing a region) is a feature with its
\* index, identifiers, pixel area, confidence and bounding box.
C13_NoTransform ==
    (VecReturned /\ v_in.transform = Nothing) =>
        /\ \A k \in 1..Len(v_out.features) :
              v_out.features[k].area_m2 = Nothing
        /\ v_out.filtering_stats # Nothing =>
              v_out.filtering_stats[1].filtered_by_area = 0
        /\ v_out.total_area_m2 = 0
        /\ \A i \in PassedPixelFilter :
              (v_in.contours[i].npoints >= 3 /\ v_in.contours[i].lobes # <<>>)
                 => Vectorized(i)
        /\ v_out.block_count =
              Cardinality({i \in PassedPixelFilter :
                              /\ v_in.contours[i].npoints >= 3
                              /\ v_in.contours[i].lobes # <<>>})

\* A call without a transform and with min_area_meters = 1000: three
\* contours pass the pixel filter, among them one of 4 pixels, and all
\* three are features.
C13_Witness ==
    /\ v_pc = "returned"
    /\ v_in.transform = Nothing
    /\ v_in.min_area_meters = 1000
    /\ v_in.min_area_pixels = 0
    /\ Len(v_in.contours) = 3
    /\ \E i \in 1..3 : v_in.contours[i].area2 = 8
    /\ Len(v_out.features) = 3
    /\ v_out.filtering_stats[1].filtered_by_area = 0

\* C14 as stated: every feature has block_id, block_index, area_px,
\* avg_confidence, bbox and persistent_id, and when a transform was supplied
\* to the call it has area_m2 and crs as well.
C14_FeatureProperties_AsStated ==
    VecReturned =>
        \A k \in 1..Len(v_out.features) :
            LET f == v_out.features[k]
            IN /\ {"block_id", "block_index", "area_px", "avg_confidence",
                   "bbox", "persistent_id"} \subseteq DOMAIN f
               /\ Len(f.bbox) = 4
               /\ v_in.transform # Nothing =>
                     (f.area_m2 # Nothing /\ f.crs # Nothing)

\* C14, amended: every feature has block_id, block_index, area_px,
\* avg_confidence, bbox and persistent_id; it has area_m2 when a transform
\* other than the identity was supplied to the call, and it has crs, equal
\* to the argument, when a crs was supplied.
C14_FeatureProperties ==
    VecReturned =>
        \A k \in 1..Len(v_out.features) :
            LET f == v_out.features[k]
            IN /\ {"block_id", "block_index", "area_px", "avg_confidence",
                   "bbox", "persistent_id"} \subseteq DOMAIN f
               /\ Len(f.bbox) = 4
               /\ (v_in.transform # Nothing
                      /\ v_in.transform # Some(AffineIdentity))
                     => f.area_m2 # Nothing
               /\ v_in.crs # None => f.crs = Some(v_in.crs)

\* A call with a georeferencing transform and a crs returned two blocks,
\* each with its area in square metres and the crs.
C14_Witness ==
    /\ v_pc = "returned"
    /\ v_in.transform = Some(Affine(500, -500, 770000000, 230000000))
    /\ v_in.crs = "EPSG:4326"
    /\ Len(v_out.features) = 2
    /\ \A k \in 1..2 : /\ v_out.features[k].area_m2 # Nothing
                        /\ v_out.features[k].area_m2[1] > 0
                        /\ v_out.features[k].crs = Some("EPSG:4326")

RoundedCentroid(f) == << Round6(f.centroid_lon), Round6(f.centroid_lat) >>
RoundedBbox(f) ==
    << Round6(f.bbox[1]), Round6(f.bbox[2]), Round6(f.bbox[3]), Round6(f.bbox[4]) >>

\* C25 as stated: the persistent_id of every emitted block is the first 12
\* hex characters of the hash over its tile label, rounded centroid and
\* rounded bounding box, and nothing else.
C25_PersistentIdIsHash_AsStated ==
    VecReturned =>
        \A k \in 1..Len(v_out.features) :
            LET f == v_out.features[k]
            IN f.persistent_id =
                  Sha1Hex12(<< f.tile_id, RoundedCentroid(f), RoundedBbox(f) >>)

\* C25, amended: the persistent_id of every emitted block is its tile
\* label, or "global" for a block without a tile label, then "-", then
\* the first 12 hex characters of the hash over that label or "global",
\* the rounded centroid and the rounded bounding box.
C25_PersistentIdIsHash ==
    VecReturned =>
        \A k \in 1..Len(v_out.features) :
            LET f == v_out.features[k]
                label == IF f.tile_id = "" THEN "global" ELSE f.tile_id
            IN f.persistent_id =
                  << label, "-",
                     Sha1Hex12(<< label, RoundedCentroid(f), RoundedBbox(f) >>) >>

\* A call without a tile label returned two blocks, with two different
\* identifiers that both start with "global".
C25_Witness ==
    /\ v_pc = "returned"
    /\ v_in.tile_id = None
    /\ Len(v_out.features) = 2
    /\ v_out.features[1].tile_id = ""
    /\ v_out.features[1].persistent_id[1] = "global"
    /\ v_out.features[2].persistent_id[1] = "global"
    /\ v_out.features[1].persistent_id # v_out.features[2].persistent_id

\* C26: the geometry of every emitted block is one simple polygon of
\* positive area: it is a piece of the ring of a contour of the call that
\* has at least three points, the only piece when the ring is valid and
\* the largest one when the ring had to be repaired; a contour that is a
\* single point, has too few points, or whose ring encloses nothing is
\* never emitted.
C26_ValidPositivePolygons ==
    VecReturned =>
        /\ \A k \in 1..Len(v_out.features) :
              LET f == v_out.features[k]
                  g == f.geometry
              IN /\ g[1] < g[3] /\ g[2] < g[4]
                 /\ \E i \in 1..Len(v_in.contours) :
                       LET c == v_in.contours[i]
                       IN /\ c.lobes = f.pixel_coords
                          /\ c.npoints >= 3
                          /\ \E n \in 1..Len(c.lobes) :
                                /\ g = GeoLobe(EffectiveTransform(v_in.transform),
                                               c.lobes[n])
                                /\ \A m \in 1..Len(c.lobes) :
                                      c.lobes[m].w * c.lobes[m].h
                                          <= c.lobes[n].w * c.lobes[n].h
        /\ \A i \in 1..Len(v_in.contours) :
              (v_in.contours[i].npoints < 3 \/ v_in.contours[i].lobes = <<>>)
                  => ~Vectorized(i)

\* A self-touching ring of two pieces, a single point and a ring enclosing
\* nothing passed the filters: one block, the larger piece of the first.
C26_Witness ==
    /\ v_pc = "returned"
    /\ Len(v_in.contours) = 3
    /\ \E i \in 1..3 : Len(v_in.contours[i].lobes) = 2
    /\ \E i \in 1..3 : v_in.contours[i].npoints = 1
    /\ \E i \in 1..3 :
          v_in.contours[i].npoints >= 3 /\ v_in.contours[i].lobes = <<>>
    /\ v_out.filtering_stats[1].filtered_by_pixels = 0
    /\ v_out.filtering_stats[1].filtered_by_area = 0
    /\ Len(v_out.features) = 1
    /\ Len(v_out.features[1].pixel_coords) = 2
    /\ v_out.features[1].geometry =
          GeoLobe(EffectiveTransform(v_in.transform),
                  v_out.features[1].pixel_coords[2])

(***************************************************************************)
(*   ProbabilityVectorizer, STEP 1: thresholding of the probability map    *)
(*                                                                         *)
(* A probability surface is the sequence of its pixels, in thousandths.    *)
(* Cutoffs are integers in units of 1/255000, so that a fixed threshold    *)
(* (thousandths), an Otsu level (1/255) and a pixel can be compared        *)
(* exactly: a pixel p is p * 255, an Otsu level k is k * 1000.             *)
(***************************************************************************)

\* the most pixels of one surface
MaxPixels == 4

\* MINIMUM_THRESHOLD = 0.30, thousandths
MinimumThreshold == 300

Probabilities == {0, 200, 299, 300, 301, 302, 600, 1000}

ProbMaps == UNION {[1..n -> Probabilities] : n \in 1..MaxPixels}

\* The fixed `threshold` argument, thousandths (0.5 is the default)
Thresholds == {0, 300, 500}

ThreshInputs ==
    {in \in [prob_map : ProbMaps,
             threshold : Thresholds,
             use_adaptive_threshold : BOOLEAN] :
        in.use_adaptive_threshold => in.threshold = 500}

\* Line 112: (prob_map * 255).astype(np.uint8) truncates
Prob8bit(p) == (p * 255) \div 1000

\* The between-class variance of the split "levels <= l" of an 8-bit image,
\* as a fraction: (s1*n2 - s2*n1)^2 / (n1*n2), a constant factor apart.
BetweenClassVariance(img, l) ==
    LET lower == {i \in DOMAIN img : img[i] <= l}
        upper == {i \in DOMAIN img : img[i] > l}
        n1 == Cardinality(lower)
        n2 == Cardinality(upper)
        s1 == SumOver(lower, img)
        s2 == SumOver(upper, img)
        d == s1 * n2 - s2 * n1
    IN [num |-> d * d, den |-> n1 * n2]

\* cv2.threshold(..., THRESH_OTSU): the first level of the largest
\* between-class variance among the levels that split the image, 0 when no
\* level does (a constant image).
OtsuThreshold(img) ==
    LET top == MaxOver(DOMAIN img, img)
        cands == {img[i] : i \in DOMAIN img} \ {top}
        less(a, b) == a.num * b.den < b.num * a.den
    IN IF cands = {} THEN 0
       ELSE CHOOSE l \in cands :
                \A k \in cands :
                    /\ k < l => less(BetweenClassVariance(img, k),
                                     BetweenClassVariance(img, l))
                    /\ k > l => ~less(BetweenClassVariance(img, l),
                                      BetweenClassVariance(img, k))

\* Mutant of the mask: `prob_map >= cutoff`.
MaskAbove_inclusive(prob_map, cutoff) ==
    [i \in DOMAIN prob_map |-> IF prob_map[i] * 255 >= cutoff THEN 1 ELSE 0]

\* Lines 127, 133: (prob_map > cutoff).astype(np.uint8)
MaskAbove(prob_map, cutoff) ==
    [i \in DOMAIN prob_map |-> IF prob_map[i] * 255 > cutoff THEN 1 ELSE 0]

\* Mutant of the safety guard: the Otsu cutoff is never replaced.
BelowMinimum_never(cutoff) == FALSE

\* Line 123: adaptive_thresh < MINIMUM_THRESHOLD
BelowMinimum(cutoff) == cutoff < MinimumThreshold * 255

\* Lines 110-136: the binary mask and the cutoff reported as threshold_used.
Thresholded(in) ==
    IF in.use_adaptive_threshold
    THEN LET prob_8bit == [i \in DOMAIN in.prob_map |->
                              Prob8bit(in.prob_map[i])]
             otsu_thresh == OtsuThreshold(prob_8bit)
         IN IF BelowMinimum(otsu_thresh * 1000)
            THEN [bin_mask |-> MaskAbove(in.prob_map, MinimumThreshold * 255),
                  adaptive_thresh |-> MinimumThreshold * 255]
            ELSE [bin_mask |-> [i \in DOMAIN prob_8bit |->
                                   IF prob_8bit[i] > otsu_thresh THEN 1 ELSE 0],
                  adaptive_thresh |-> otsu_thresh * 1000]
    ELSE [bin_mask |-> MaskAbove(in.prob_map, in.threshold * 255),
          adaptive_thresh |-> in.threshold * 255]

\* bin_mask.sum()
MaskSum(mask) == SumOver(DOMAIN mask, mask)

\* Lines 95-148: a call whose mask is empty returns the empty collection.
ThreshReturnsEmpty ==
    /\ t_pc = "idle"
    /\ \E in \in ThreshInputs :
        LET th == Thresholded(in)
        IN /\ MaskSum(th.bin_mask) = 0
           /\ t_in' = in
           /\ bin_mask' = th.bin_mask
           /\ adaptive_thresh' = th.adaptive_thresh
           /\ t_out' = EmptyCollection(th.adaptive_thresh)
    /\ t_pc' = "returned"

\* Lines 95-150: a call whose mask has a pixel set goes on to STEP 2.
ThreshProceeds ==
    /\ t_pc = "idle"
    /\ \E in \in ThreshInputs :
        LET th == Thresholded(in)
        IN /\ MaskSum(th.bin_mask) # 0
           /\ t_in' = in
           /\ bin_mask' = th.bin_mask
           /\ adaptive_thresh' = th.adaptive_thresh
    /\ t_pc' = "morphology"
    /\ UNCHANGED t_out

NextThresh ==
    \/ ThreshReturnsEmpty /\ UNCHANGED <<gridVars, inferVars, vecVars,
                                         mosaicVars, pipeVars, fetchVars, svcVars>>
    \/ ThreshProceeds /\ UNCHANGED <<gridVars, inferVars, vecVars,
                                     mosaicVars, pipeVars, fetchVars, svcVars>>

SpecThresh == Init /\ [][NextThresh]_vars

\* ---- properties of the thresholding step ----

AllZero(prob_map) == \A i \in DOMAIN prob_map : prob_map[i] = 0

\* C11: a call on a surface of all zeros with a threshold >= 0, under the
\* fixed or the adaptive policy, never goes on to vectorization: it returns
\* the empty feature collection with block_count = 0 and total_area_m2 = 0.
C11_EmptySurface ==
    (t_pc # "idle" /\ AllZero(t_in.prob_map) /\ t_in.threshold >= 0) =>
        /\ t_pc = "returned"
        /\ t_out.features = <<>>
        /\ t_out.block_count = 0
        /\ t_out.total_area_m2 = 0

\* An all-zero surface of several pixels under the fixed policy with
\* threshold 0 has returned.
C11_Witness ==
    /\ t_pc = "returned"
    /\ Len(t_in.prob_map) >= 2
    /\ AllZero(t_in.prob_map)
    /\ ~t_in.use_adaptive_threshold
    /\ t_in.threshold = 0
    /\ t_out.block_count = 0

\* C15: under the adaptive policy the cutoff reported as threshold_used is
\* at least 0.30, and no pixel whose probability is at most that cutoff is
\* set in the binary mask.
C15_AdaptiveFloor ==
    (t_pc # "idle" /\ t_in.use_adaptive_threshold) =>
        /\ adaptive_thresh >= 300 * 255
        /\ t_pc = "returned" => t_out.threshold_used = adaptive_thresh
        /\ \A i \in DOMAIN t_in.prob_map :
              t_in.prob_map[i] * 255 <= adaptive_thresh => bin_mask[i] = 0

\* An adaptive call on a surface that Otsu's method splits at a level below
\* 0.30: the cutoff is the floor, a pixel of exactly 0.30 is not set and a
\* pixel above it is.
C15_Witness ==
    /\ t_pc = "morphology"
    /\ t_in.use_adaptive_threshold
    /\ OtsuThreshold([i \in DOMAIN t_in.prob_map |->
                         Prob8bit(t_in.prob_map[i])]) < 76
    /\ adaptive_thresh = 300 * 255
    /\ \E i, j \in DOMAIN t_in.prob_map :
          /\ t_in.prob_map[i] = 300 /\ bin_mask[i] = 0
          /\ t_in.prob_map[j] = 301 /\ bin_mask[j] = 1

(***************************************************************************)
(*              MosaicAssembler: build_mosaic_from_tiles                   *)
(*                                                                         *)
(* Rasters are one row of cells on a common grid of resolution 1: a tile's *)
(* transform is the grid column of its first cell, its bounds the columns  *)
(* <<west, east>> it spans, its data the values of its cells.              *)
(***************************************************************************)

\* the most tiles one call receives
MaxTiles == 3

TileDatas == { Nothing, Some(<<5, 5>>), Some(<<0, 5>>), Some(<<9, 9>>) }
TileOffsets == {0, 1, 2}

\* Tiles as the fetching service caches them (transform and bounds set),
\* and tiles without a transform, with and without bounds.
MosaicTiles ==
    { [data |-> d, transform |-> Some(off), bounds |-> Some(<<off, off + 2>>),
       crs |-> c] :
         d \in TileDatas, off \in TileOffsets, c \in {None, "EPSG:32643"} }
    \cup
    { [data |-> Some(<<9, 9>>), transform |-> Nothing,
       bounds |-> Some(<<1, 3>>), crs |-> None],
      [data |-> Some(<<9, 9>>), transform |-> Nothing,
       bounds |-> Nothing, crs |-> None] }

RECURSIVE SeqsUpTo(_, _)
SeqsUpTo(S, n) ==
    IF n = 0 THEN {<<>>}
    ELSE LET shorter == SeqsUpTo(S, n - 1)
         IN shorter \cup
            {Append(q, e) : q \in {r \in shorter : Len(r) = n - 1}, e \in S}

TileLists == SeqsUpTo(MosaicTiles, MaxTiles)

\* Mutant of the tile's CRS: the default is used whatever the tile names.
EnsureTileTransform_crsDefaulted(tile) ==
    IF tile.data = Nothing
    THEN [error |-> "ValueError: Tile is missing data array for mosaicking"]
    ELSE IF tile.transform = Nothing /\ tile.bounds = Nothing
    THEN [error |-> "ValueError: Tile is missing bounds required to derive transform"]
    ELSE [error |-> None,
          data |-> tile.data[1],
          transform |-> IF tile.transform # Nothing THEN tile.transform[1]
                        ELSE tile.bounds[1][1],
          crs |-> "EPSG:4326"]

\* Lines 50-71: _ensure_tile_transform; the dataset to open, or the
\* ValueError it raises.
EnsureTileTransform(tile) ==
    IF tile.data = Nothing
    THEN [error |-> "ValueError: Tile is missing data array for mosaicking"]
    ELSE IF tile.transform = Nothing /\ tile.bounds = Nothing
    THEN [error |-> "ValueError: Tile is missing bounds required to derive transform"]
    ELSE [error |-> None,
          data |-> tile.data[1],
          transform |-> IF tile.transform # Nothing THEN tile.transform[1]
                        ELSE tile.bounds[1][1],       \* from_bounds
          crs |-> IF tile.crs = None THEN "EPSG:4326" ELSE tile.crs]

\* Mutant of the skip: tiles with missing data are not skipped.
TilesWithData_all(tiles) == tiles

\* Lines 127-129: `if tile.get("data") is None: continue`
TilesWithData(tiles) == SelectSeq(tiles, LAMBDA t : t.data # Nothing)

\* Lines 131-148: the datasets opened for the tiles with data
Datasets(tiles) ==
    LET usable == TilesWithData(tiles)
    IN [i \in 1..Len(usable) |-> EnsureTileTransform(usable[i])]

DsWest(ds) == ds.transform
DsEast(ds) == ds.transform + Len(ds.data)

RECURSIVE MinWest(_)
MinWest(datasets) ==
    IF Len(datasets) = 1 THEN DsWest(datasets[1])
    ELSE Min2(DsWest(Head(datasets)), MinWest(Tail(datasets)))

RECURSIVE MaxEast(_)
MaxEast(datasets) ==
    IF Len(datasets) = 1 THEN DsEast(datasets[1])
    ELSE Max2(DsEast(Head(datasets)), MaxEast(Tail(datasets)))

\* rasterio.merge.copy_first on one dataset: a destination cell takes the
\* source value where the source covers it and the destination still holds
\* the fill value.  The datasets are opened without a nodata value (lines
\* 137-145), so the fill value is 0 and every source cell is valid.
CopyFirst(dest, ds) ==
    [c \in DOMAIN dest |->
        IF DsWest(ds) <= c /\ c < DsEast(ds) /\ dest[c] = 0
        THEN ds.data[c - DsWest(ds) + 1]
        ELSE dest[c]]

RECURSIVE PaintAll(_, _)
PaintAll(dest, datasets) ==
    IF datasets = <<>> THEN dest
    ELSE PaintAll(CopyFirst(dest, Head(datasets)), Tail(datasets))

\* Line 153: merge(datasets, method="first"): the output spans the union
\* of the datasets' bounds, starts filled with 0 and is painted dataset by
\* dataset in input order.
MergeFirst(datasets) ==
    LET west == MinWest(datasets)
        east == MaxEast(datasets)
    IN [array |-> PaintAll([c \in west..(east - 1) |-> 0], datasets),
        transform |-> west]

\* Lines 116-169: build_mosaic_from_tiles
BuildMosaicFromTiles(tile_data_list) ==
    IF tile_data_list = <<>>
    THEN [error |-> "ValueError: No tile data available to build mosaic"]
    ELSE LET datasets == Datasets(tile_data_list)
         IN IF \E i \in 1..Len(datasets) : datasets[i].error # None
            THEN [error |->
                    datasets[CHOOSE i \in 1..Len(datasets) :
                        /\ datasets[i].error # None
                        /\ \A j \in 1..(i - 1) : datasets[j].error = None].error]
            ELSE IF datasets = <<>>
            THEN [error |-> "ValueError: Tile dataset list is empty after filtering missing data"]
            ELSE LET merged == MergeFirst(datasets)
                     width == Cardinality(DOMAIN merged.array)
                 IN [error |-> None,
                     mosaic_array |-> merged.array,
                     mosaic_transform |-> merged.transform,
                     mosaic_crs |-> datasets[1].crs,
                     mosaic_bounds |-> << merged.transform,
                                          merged.transform + width >>]

\* A call of build_mosaic_from_tiles.
MosaicCall ==
    /\ m_pc = "idle"
    /\ \E tiles \in TileLists :
        /\ m_in' = tiles
        /\ m_out' = BuildMosaicFromTiles(tiles)
        /\ m_pc' = IF m_out'.error = None THEN "returned" ELSE "raised"

NextMosaic == MosaicCall /\ UNCHANGED <<gridVars, inferVars, vecVars,
                                        threshVars, pipeVars, fetchVars, svcVars>>

SpecMosaic == Init /\ [][NextMosaic]_vars

\* ---- properties of the mosaic ----

TileWestOf(tile) ==
    IF tile.transform # Nothing THEN tile.transform[1] ELSE tile.bounds[1][1]

\* The tile has pixel data and covers grid column c
TileCovers(tile, c) ==
    /\ tile.data # Nothing
    /\ TileWestOf(tile) <= c /\ c < TileWestOf(tile) + Len(tile.data[1])

TileValueAt(tile, c) == tile.data[1][c - TileWestOf(tile) + 1]

\* C6 (as claimed): every mosaic cell covered by more than one input tile
\* holds the value of the earliest tile of the input sequence that covers it.
C6_FirstWins ==
    m_pc = "returned" =>
        \A c \in DOMAIN m_out.mosaic_array :
            \A i \in 1..Len(m_in) :
                ( /\ TileCovers(m_in[i], c)
                  /\ \A j \in 1..(i - 1) : ~TileCovers(m_in[j], c)
                  /\ \E j \in (i + 1)..Len(m_in) : TileCovers(m_in[j], c) )
                => m_out.mosaic_array[c] = TileValueAt(m_in[i], c)

HasData(tile) == tile.data # Nothing

\* C8: tiles without pixel data are skipped: the call raises ValueError and
\* returns no mosaic when the input is empty or no tile has data, it returns
\* a mosaic when some tile has data and every tile with data has a transform
\* or bounds, and the mosaic's extent, cell values and CRS all come from
\* tiles with data.
C8_MissingDataSkipped ==
    m_pc # "idle" =>
        /\ (\A i \in 1..Len(m_in) : ~HasData(m_in[i]))
              => (m_pc = "raised" /\ DOMAIN m_out = {"error"})
        /\ ( /\ \E i \in 1..Len(m_in) : HasData(m_in[i])
             /\ \A i \in 1..Len(m_in) :
                   HasData(m_in[i]) =>
                      (m_in[i].transform # Nothing \/ m_in[i].bounds # Nothing) )
              => m_pc = "returned"
        /\ m_pc = "returned" =>
              /\ \A c \in DOMAIN m_out.mosaic_array :
                    \/ m_out.mosaic_array[c] = 0
                    \/ \E i \in 1..Len(m_in) :
                          /\ TileCovers(m_in[i], c)
                          /\ m_out.mosaic_array[c] = TileValueAt(m_in[i], c)
              /\ \E i \in 1..Len(m_in) :
                    HasData(m_in[i]) /\ TileWestOf(m_in[i]) = m_out.mosaic_transform
              /\ \E i \in 1..Len(m_in) :
                    /\ HasData(m_in[i])
                    /\ TileWestOf(m_in[i]) + Len(m_in[i].data[1])
                          = m_out.mosaic_bounds[2]
              /\ \E i \in 1..Len(m_in) :
                    /\ HasData(m_in[i])
                    /\ m_out.mosaic_crs =
                          (IF m_in[i].crs = None THEN "EPSG:4326"
                           ELSE m_in[i].crs)

\* A mosaic was returned for a list whose first tile has no data, lies west
\* of every tile with data and names another CRS than the mosaic has.
C8_Witness ==
    /\ m_pc = "returned"
    /\ Len(m_in) >= 2
    /\ ~HasData(m_in[1])
    /\ m_in[1].transform # Nothing
    /\ m_in[1].transform[1] < m_out.mosaic_transform
    /\ m_in[1].crs = "EPSG:32643"
    /\ m_out.mosaic_crs = "EPSG:4326"

\* The CRS _ensure_tile_transform gives the tile: its own, or the default
TileCrs(tile) == IF tile.crs = None THEN "EPSG:4326" ELSE tile.crs

\* C23: the CRS of a returned mosaic is the CRS of the first tile of the
\* input sequence that has pixel data (its own CRS, or the default when it
\* names none), whatever CRS the tiles skipped before it and the tiles
\* after it name.
C23_CrsOfFirstUsableTile ==
    m_pc = "returned" =>
        \E i \in 1..Len(m_in) :
            /\ HasData(m_in[i])
            /\ \A j \in 1..(i - 1) : ~HasData(m_in[j])
            /\ m_out.mosaic_crs = TileCrs(m_in[i])

\* Three tiles: the first is skipped for missing data and names UTM 43N,
\* the second has data and names no CRS, the third has data and names UTM
\* 43N; the mosaic has the default CRS of the second.
C23_Witness ==
    /\ m_pc = "returned"
    /\ Len(m_in) = 3
    /\ ~HasData(m_in[1]) /\ m_in[1].crs = "EPSG:32643"
    /\ HasData(m_in[2]) /\ m_in[2].crs = None
    /\ HasData(m_in[3]) /\ m_in[3].crs = "EPSG:32643"
    /\ m_out.mosaic_crs = "EPSG:4326"

(***************************************************************************)
(*     TileFetchingService.fetch_all_tiles_realtime: the downloads run in  *)
(*     a thread pool and are collected as they complete                    *)
(*                                                                         *)
(* A tile of the request carries the outcome its download will have: the   *)
(* 6-band raster with its transform and CRS, or no raster when the 6-band  *)
(* download failed (the RGB preview alone is returned).                    *)
(***************************************************************************)

\* self.max_concurrent_downloads, line 35
max_concurrent_downloads == 5

FetchOutcomes ==
    { [data |-> Nothing, off |-> 0, crs |-> None],
      [data |-> Some(<<5, 5>>), off |-> 0, crs |-> "EPSG:4326"],
      [data |-> Some(<<9, 9>>), off |-> 0, crs |-> "EPSG:4326"],
      [data |-> Some(<<9, 9>>), off |-> 1, crs |-> "EPSG:32643"] }

\* `tiles`: the grid's tiles in row-major order, at least one
FetchRequests == SeqsUpTo(FetchOutcomes, MaxTiles) \ {<<>>}

\* Lines 342-351: the entry appended to tile_6band_data for tile k
CacheEntry(tiles, k) ==
    [tile_id |-> k,
     data |-> tiles[k].data,
     bounds |-> Some(<<tiles[k].off, tiles[k].off + 2>>),
     transform |-> Some(tiles[k].off),
     crs |-> tiles[k].crs]

\* Lines 323-332: the lists are created and every download is submitted.
FetchAllTiles ==
    /\ f_pc = "idle"
    /\ \E tiles \in FetchRequests :
        /\ f_tiles' = tiles
        /\ futures' = 1..Len(tiles)
    /\ fetched_tiles' = <<>>
    /\ f_6band_data' = <<>>
    /\ f_pc' = "running"
    /\ UNCHANGED cached_6band_data

\* The pool runs at most max_concurrent_downloads downloads at a time and
\* starts them in submission order: download k has started once fewer than
\* that many earlier downloads are unfinished.
DownloadStarted(k) ==
    Cardinality({j \in futures : j < k}) < max_concurrent_downloads

\* Lines 335-365: as_completed yields the next finished download, whichever
\* it is; its tile is appended, and its raster when it has one.
FutureCompletes ==
    /\ f_pc = "running"
    /\ \E k \in futures :
        /\ DownloadStarted(k)
        /\ futures' = futures \ {k}
        /\ fetched_tiles' = Append(fetched_tiles, k)
        /\ f_6band_data' =
              IF f_tiles[k].data # Nothing
              THEN Append(f_6band_data, CacheEntry(f_tiles, k))
              ELSE f_6band_data
    /\ UNCHANGED <<f_pc, f_tiles, cached_6band_data>>

\* Lines 367-373: the pool is left, the rasters are cached.
FetchReturns ==
    /\ f_pc = "running"
    /\ futures = {}
    /\ cached_6band_data' = f_6band_data
    /\ f_pc' = "returned"
    /\ UNCHANGED <<f_tiles, futures, fetched_tiles, f_6band_data>>

NextFetch ==
    \/ FetchAllTiles /\ UNCHANGED <<gridVars, inferVars, vecVars, mosaicVars,
                                    threshVars, pipeVars, svcVars>>
    \/ FutureCompletes /\ UNCHANGED <<gridVars, inferVars, vecVars, mosaicVars,
                                      threshVars, pipeVars, svcVars>>
    \/ FetchReturns /\ UNCHANGED <<gridVars, inferVars, vecVars, mosaicVars,
                                   threshVars, pipeVars, svcVars>>

SpecFetch == Init /\ [][NextFetch]_vars

\* ---- properties of the fetch ----

\* The rasters of the request in the grid's row-major order
RowMajorCache(tiles) ==
    SelectSeq([k \in 1..Len(tiles) |-> CacheEntry(tiles, k)],
              LAMBDA e : e.data # Nothing)

\* C27: the 6-band tiles cached by fetch_all_tiles_realtime are in the
\* grid's row-major order whatever the order in which the downloads
\* complete, so the mosaic built from the cache (lines 569-587: the
\* first-wins winner of every overlap, and the CRS) is the one built from
\* the tiles in row-major order.
C27_CacheRowMajor ==
    (f_pc = "returned" /\ cached_6band_data # <<>>) =>
        /\ \A i \in 1..(Len(cached_6band_data) - 1) :
              cached_6band_data[i].tile_id < cached_6band_data[i + 1].tile_id
        /\ BuildMosaicFromTiles(cached_6band_data)
              = BuildMosaicFromTiles(RowMajorCache(f_tiles))

(***************************************************************************)
(*                     GridPlanner: calculate_tile_grid                    *)
(***************************************************************************)

\* self.tile_size, the tile edge in pixels
TileSize == 512
\* the default of the `resolution` parameter, metres per pixel
Resolution == 10
\* kilometres per degree of latitude used by the spherical approximation
KmPerDegree == 111

\* AOI bounding boxes are drawn on a lattice of ExtentStep micro-degrees,
\* up to MaxExtentSteps steps wide and high.
ExtentStep == 25000
MaxExtentSteps == 4

\* math.cos(math.radians(center_lat)) in thousandths, for the two latitude
\* bands the model draws AOIs from (around 0 and around 60 degrees, either
\* hemisphere).
CosMilli(center_lat) ==
    LET a == IF center_lat < 0 THEN -center_lat ELSE center_lat
    IN IF a < 30 * 1000000 THEN 1000 ELSE 500

\* tile_size_km / 111.0, in micro-degrees
TileDegLat(resolution) ==
    (TileSize * resolution * 1000) \div KmPerDegree

\* tile_size_km / (111.0 * cos(center_lat)), in micro-degrees
TileDegLon(resolution, center_lat) ==
    (TileDegLat(resolution) * 1000) \div CosMilli(center_lat)

\* tile_deg * 0.1
BufferOf(tile_deg) == tile_deg \div 10

GeometryTypes == {"Polygon", "MultiPolygon", "Point"}

GridOrigins == {0, -20000, 60 * 1000000}
\* an extent of five tile edges, for grids of more than MAX_TILES tiles
LargeExtent == 230000
GridExtents == {k * ExtentStep : k \in 0..MaxExtentSteps} \cup {LargeExtent}

\* The bounding boxes ee_geom.bounds() can return: min <= max on both axes.
GridInputs ==
    [type : GeometryTypes,
     min_lon : {0, -20000}, width : GridExtents,
     min_lat : GridOrigins, height : GridExtents]

\* Lines 53-89: geometry conversion, bounding box, tile size in degrees,
\* buffered extent, loop initialisation.
GridCall ==
    /\ g_pc = "idle"
    /\ \E inp \in GridInputs :
        LET min_lon == inp.min_lon
            max_lon == inp.min_lon + inp.width
            min_lat == inp.min_lat
            max_lat == inp.min_lat + inp.height
            center_lat == (min_lat + max_lat) \div 2
            tile_deg_lat == TileDegLat(Resolution)
            tile_deg_lon == TileDegLon(Resolution, center_lat)
        IN /\ g_in' = [type |-> inp.type, min_lon |-> min_lon,
                       max_lon |-> max_lon, min_lat |-> min_lat,
                       max_lat |-> max_lat]
           /\ IF inp.type \notin {"Polygon", "MultiPolygon"}
              THEN \* geometry_to_ee_polygon raises ValueError
                   /\ g_pc' = "raised"
                   /\ g_loc' = NoGridLocals
              ELSE /\ g_pc' = "outer"
                   /\ g_loc' =
                        [tile_deg_lat |-> tile_deg_lat,
                         tile_deg_lon |-> tile_deg_lon,
                         extended_min_lat |-> min_lat - BufferOf(tile_deg_lat),
                         extended_max_lat |-> max_lat + BufferOf(tile_deg_lat),
                         extended_min_lon |-> min_lon - BufferOf(tile_deg_lon),
                         extended_max_lon |-> max_lon + BufferOf(tile_deg_lon),
                         lat |-> min_lat - BufferOf(tile_deg_lat),
                         lon |-> min_lon - BufferOf(tile_deg_lon),
                         row |-> 0, col |-> 0, tile_id |-> 0]
           /\ g_tiles' = <<>>

\* Mutant of the outer loop test: a row is generated only while it fits
\* entirely below the buffered upper edge (no tile extending past the edge).
GridOuterTest_fullRowsOnly ==
    g_loc.lat + g_loc.tile_deg_lat <= g_loc.extended_max_lat

\* Line 90: `while lat < extended_max_lat`
GridOuterTest == g_loc.lat < g_loc.extended_max_lat

\* Line 93: `while lon < extended_max_lon`
GridInnerTest == g_loc.lon < g_loc.extended_max_lon

\* Mutant of the row start: `col = 0` is missing.
GridOuter_colNotReset ==
    /\ g_pc = "outer"
    /\ IF GridOuterTest
       THEN /\ g_loc' = [g_loc EXCEPT !.lon = g_loc.extended_min_lon]
            /\ g_pc' = "inner"
       ELSE /\ g_pc' = "done"
            /\ UNCHANGED g_loc
    /\ UNCHANGED <<g_in, g_tiles>>

\* Lines 90-92 and 129-130: the outer loop test; enters a row or returns.
GridOuter ==
    /\ g_pc = "outer"
    /\ IF GridOuterTest
       THEN /\ g_loc' = [g_loc EXCEPT !.lon = g_loc.extended_min_lon,
                                      !.col = 0]
            /\ g_pc' = "inner"
       ELSE /\ g_pc' = "done"
            /\ UNCHANGED g_loc
    /\ UNCHANGED <<g_in, g_tiles>>

\* Lines 95-101: the closed 5-point ring of a tile
TileBounds(lon, lat, tile_deg_lon, tile_deg_lat) ==
    << <<lon, lat>>,
       <<lon + tile_deg_lon, lat>>,
       <<lon + tile_deg_lon, lat + tile_deg_lat>>,
       <<lon, lat + tile_deg_lat>>,
       <<lon, lat>> >>

\* Lines 93-127: one iteration of the inner loop (append a tile), or its
\* exit (next row).
GridInner ==
    /\ g_pc = "inner"
    /\ IF GridInnerTest
       THEN /\ g_tiles' = Append(g_tiles,
                [id |-> g_loc.tile_id,
                 row |-> g_loc.row,
                 col |-> g_loc.col,
                 bounds |-> TileBounds(g_loc.lon, g_loc.lat,
                                       g_loc.tile_deg_lon, g_loc.tile_deg_lat),
                 size_pixels |-> TileSize,
                 resolution |-> Resolution])
            /\ g_loc' = [g_loc EXCEPT !.tile_id = g_loc.tile_id + 1,
                                      !.col = g_loc.col + 1,
                                      !.lon = g_loc.lon + g_loc.tile_deg_lon]
            /\ UNCHANGED g_pc
       ELSE /\ g_loc' = [g_loc EXCEPT !.row = g_loc.row + 1,
                                      !.lat = g_loc.lat + g_loc.tile_deg_lat]
            /\ g_pc' = "outer"
            /\ UNCHANGED g_tiles
    /\ UNCHANGED g_in

\* MAX_TILES, line 443
MAX_TILES == 25

\* Mutant of the cut: the last MAX_TILES tiles are kept.
LimitTiles_lastKept(tiles) ==
    IF Len(tiles) > MAX_TILES
    THEN SubSeq(tiles, Len(tiles) - MAX_TILES + 1, Len(tiles))
    ELSE tiles

\* analysis_realtime.py lines 444-446: `tiles = tiles[:MAX_TILES]` when
\* the grid has more than MAX_TILES tiles.
LimitTiles(tiles) ==
    IF Len(tiles) > MAX_TILES THEN SubSeq(tiles, 1, MAX_TILES) ELSE tiles

\* analysis_realtime.py lines 438-446: the orchestrator takes the returned
\* list and keeps the tiles it will fetch.
KeepFirstTiles ==
    /\ g_pc = "done"
    /\ g_tiles' = LimitTiles(g_tiles)
    /\ g_pc' = "limited"
    /\ UNCHANGED <<g_in, g_loc>>

NextGrid ==
    \/ KeepFirstTiles /\ UNCHANGED <<inferVars, vecVars, mosaicVars, threshVars,
                                     pipeVars, fetchVars, svcVars>>
    \/ GridCall /\ UNCHANGED <<inferVars, vecVars, mosaicVars, threshVars,
                               pipeVars, fetchVars, svcVars>>
    \/ GridOuter /\ UNCHANGED <<inferVars, vecVars, mosaicVars, threshVars,
                                pipeVars, fetchVars, svcVars>>
    \/ GridInner /\ UNCHANGED <<inferVars, vecVars, mosaicVars, threshVars,
                                pipeVars, fetchVars, svcVars>>

SpecGrid == Init /\ [][NextGrid]_vars

\* The thread that runs calculate_tile_grid (asyncio.to_thread, line 438)
\* keeps running: a pass of a loop that can be taken is taken.
SpecGridFair ==
    SpecGrid /\ WF_vars((GridOuter \/ GridInner)
                          /\ UNCHANGED <<inferVars, vecVars, mosaicVars,
                                         threshVars, pipeVars, fetchVars,
                                         svcVars>>)

SpecInfer == Init /\ [][NextInfer]_vars

\* ---- properties of the grid ----

TileWest(t) == t.bounds[1][1]
TileSouth(t) == t.bounds[1][2]
TileEast(t) == t.bounds[3][1]
TileNorth(t) == t.bounds[3][2]

TileContains(t, lon, lat) ==
    /\ TileWest(t) <= lon /\ lon <= TileEast(t)
    /\ TileSouth(t) <= lat /\ lat <= TileNorth(t)

GridReturned == g_pc = "done"

\* The coordinates at which coverage by a union of axis-aligned closed
\* rectangles can change inside [lo, hi]: the ends of the interval and every
\* tile edge with its two lattice neighbours.
CriticalCoords(lo, hi, edges) ==
    {c \in {lo, hi} \cup {e + d : e \in edges, d \in {-1, 0, 1}} :
        lo <= c /\ c <= hi}

AoiCriticalLons ==
    CriticalCoords(g_in.min_lon, g_in.max_lon,
        {TileWest(g_tiles[i]) : i \in 1..Len(g_tiles)}
            \cup {TileEast(g_tiles[i]) : i \in 1..Len(g_tiles)})

AoiCriticalLats ==
    CriticalCoords(g_in.min_lat, g_in.max_lat,
        {TileSouth(g_tiles[i]) : i \in 1..Len(g_tiles)}
            \cup {TileNorth(g_tiles[i]) : i \in 1..Len(g_tiles)})

\* C1: when calculate_tile_grid has returned, every point of the original
\* (unbuffered) AOI bounding box lies inside the bounds of at least one tile
\* of the returned list.  Coverage by closed axis-aligned tiles is constant
\* between critical coordinates, so it is checked at all of them.
C1_Coverage ==
    GridReturned =>
        \A lon \in AoiCriticalLons : \A lat \in AoiCriticalLats :
            \E i \in 1..Len(g_tiles) : TileContains(g_tiles[i], lon, lat)

\* A returned grid of several rows and columns over a box of positive area.
C1_Witness ==
    /\ GridReturned
    /\ g_in.max_lon > g_in.min_lon /\ g_in.max_lat > g_in.min_lat
    /\ g_loc.row >= 2 /\ Len(g_tiles) >= 4

AoiDegenerate ==
    g_in.max_lon = g_in.min_lon \/ g_in.max_lat = g_in.min_lat

\* C9 (as claimed): whenever the AOI bounding box has zero width or zero
\* height, calculate_tile_grid raises and emits no tile.
C9_DegenerateRejected ==
    (g_pc # "idle" /\ AoiDegenerate) => (g_pc # "done" /\ g_tiles = <<>>)

\* The number of columns of the returned grid
GridCols == Cardinality({g_tiles[k].col : k \in 1..Len(g_tiles)})

\* C19: in the returned list the first tile is (row 0, col 0) at the
\* buffered south-west corner; each next tile is either the next column of
\* the same row or column 0 of the next row; no two tiles share (row, col);
\* every row has the same number of columns; and id = row * columns + col.
C19_RowMajorIds ==
    GridReturned =>
        /\ g_tiles # <<>> =>
              /\ g_tiles[1].row = 0 /\ g_tiles[1].col = 0
              /\ TileWest(g_tiles[1]) = g_loc.extended_min_lon
              /\ TileSouth(g_tiles[1]) = g_loc.extended_min_lat
        /\ \A k \in 1..(Len(g_tiles) - 1) :
              \/ /\ g_tiles[k + 1].row = g_tiles[k].row
                 /\ g_tiles[k + 1].col = g_tiles[k].col + 1
                 /\ TileWest(g_tiles[k + 1]) = TileEast(g_tiles[k])
              \/ /\ g_tiles[k + 1].row = g_tiles[k].row + 1
                 /\ g_tiles[k + 1].col = 0
                 /\ TileSouth(g_tiles[k + 1]) = TileNorth(g_tiles[k])
        /\ \A j, k \in 1..Len(g_tiles) :
              (g_tiles[j].row = g_tiles[k].row /\ g_tiles[j].col = g_tiles[k].col)
                 => j = k
        /\ \A k \in 1..Len(g_tiles) :
              /\ Cardinality({j \in 1..Len(g_tiles) :
                                 g_tiles[j].row = g_tiles[k].row}) = GridCols
              /\ g_tiles[k].id = g_tiles[k].row * GridCols + g_tiles[k].col

\* A returned grid of at least two rows and three columns: the tile at
\* (row 1, col 1) has id columns + 1.
C19_Witness ==
    /\ GridReturned
    /\ GridCols >= 3
    /\ \E k \in 1..Len(g_tiles) :
          /\ g_tiles[k].row = 1 /\ g_tiles[k].col = 1
          /\ g_tiles[k].id = GridCols + 1

\* The least number of steps of the given size that span an extent
StepsToSpan(extent, step) == (extent + step - 1) \div step

GridRows ==
    StepsToSpan(g_loc.extended_max_lat - g_loc.extended_min_lat,
                g_loc.tile_deg_lat)

GridColumns ==
    StepsToSpan(g_loc.extended_max_lon - g_loc.extended_min_lon,
                g_loc.tile_deg_lon)

\* C30: with a positive tile edge in degrees a call of calculate_tile_grid
\* that entered its loops returns; the returned list has exactly rows x
\* cols tiles, rows and cols being the numbers of tile-edge steps needed
\* to span the buffered height and width; and the list the orchestrator
\* fetches has at most MAX_TILES = 25 tiles: the whole grid, or exactly
\* its first 25 tiles in their (row-major) order when the grid is larger.
C30_GridTerminatesAndIsCut ==
    /\ (g_pc \in {"outer", "inner"}
            /\ g_loc.tile_deg_lat > 0 /\ g_loc.tile_deg_lon > 0)
          ~> (g_pc = "done")
    /\ [](g_pc = "done" =>
             /\ g_loc.row = GridRows
             /\ GridCols = GridColumns
             /\ Len(g_tiles) = GridRows * GridColumns)
    /\ [][(g_pc = "done" /\ g_pc' = "limited") =>
             /\ Len(g_tiles') = Min2(Len(g_tiles), 25)
             /\ \A k \in 1..Len(g_tiles') : g_tiles'[k] = g_tiles[k]]_vars
    /\ [](g_pc = "limited" => Len(g_tiles) <= 25)

\* A grid of 6 rows of 6 columns was returned and cut: 25 tiles are kept,
\* the last of them the first tile of the fifth row.
C30_Witness ==
    /\ g_pc = "limited"
    /\ g_loc.row = 6 /\ g_loc.tile_id = 36
    /\ Len(g_tiles) = 25
    /\ g_tiles[1].id = 0
    /\ g_tiles[25].id = 24 /\ g_tiles[25].row = 4 /\ g_tiles[25].col = 0

(***************************************************************************)
(*     PipelineOrchestrator: start_analysis_realtime and                   *)
(*     process_analysis_realtime, for one analysis                         *)
(*                                                                         *)
(* Each action is the code between two awaited stage calls, with the stage *)
(* call's outcome (a return value or a raised exception) chosen freely.    *)
(* Messages and exceptions are tuples of their text parts.  The entry of   *)
(* an analysis outlives its run (RESULT_RETENTION_HOURS = 24), so the      *)
(* cleanup of expired entries does not act on a running analysis.          *)
(***************************************************************************)

\* the most tiles calculate_tile_grid returns to the orchestrator
MaxGridTiles == 26

\* Lines 264-272: the entry /start stores; the keys set later are absent
\* (Nothing) until then.
InitialEntry ==
    [status |-> "processing",
     progress |-> 0,
     message |-> << "Initializing analysis..." >>,
     current_step |-> "initialization",
     tiles |-> << >>,
     total_tiles |-> Nothing,
     tiles_fetched |-> Nothing,
     summary |-> Nothing,
     merged_blocks |-> Nothing,
     detections |-> Nothing]

\* The locals of process_analysis_realtime the later stages read
InitialLocals ==
    [tiles |-> 0,             \* len(tiles) after the MAX_TILES cut
     grid_size |-> 0,         \* len(tiles) as calculate_tile_grid returned it
     current |-> 0,           \* tiles fetched so far
     cached_6band_data |-> 0, \* len(tile_service.cached_6band_data)
     mosaic |-> "pending",    \* "pending" | "assembled" | "raised"
     inference |-> "pending", \* "pending" | "returned" | "raised"
     mosaic_result |-> [success |-> FALSE, mine_blocks |-> 0,
                        confidence |-> 0],
     detections |-> 0]

\* update(...) of the entry with the progress triple
Progress(entry, progress, message, current_step) ==
    [entry EXCEPT !.progress = progress,
                  !.message = message,
                  !.current_step = current_step]

\* `raise` inside the try block of process_analysis_realtime
Raise(exc) ==
    /\ p_exc' = exc
    /\ p_pc' = "except"

\* Lines 254-299: /start stores the entry and submits safe_process.
StartAnalysis ==
    /\ p_pc = "idle"
    /\ analysis_results' = InitialEntry
    /\ p_loc' = InitialLocals
    /\ p_pc' = "validate"
    /\ UNCHANGED p_exc

\* Lines 257-259, 314-318: the AOI is unknown, /start answers with an error
\* and stores nothing.
StartAnalysisAoiNotFound ==
    /\ p_pc = "idle"
    /\ p_pc' = "http_error"
    /\ UNCHANGED <<analysis_results, p_loc, p_exc>>

\* Lines 363-411: Step 1; an area above 200 km2 raises, a failed area
\* computation is ignored.
ValidateAoi ==
    /\ p_pc = "validate"
    /\ analysis_results' =
          Progress(analysis_results, 5,
                   << "Validating Area of Interest..." >>, "validating")
    /\ \E area \in {"within_limit", "too_large", "unknown"} :
          IF area = "too_large"
          THEN Raise(<< "AOI too large" >>)
          ELSE p_pc' = "services" /\ UNCHANGED p_exc
    /\ UNCHANGED p_loc

\* Lines 413-426: Step 2.
InitServices ==
    /\ p_pc = "services"
    /\ analysis_results' =
          Progress(analysis_results, 10,
                   << "Connecting to Google Earth Engine..." >>, "connecting")
    /\ \/ p_pc' = "grid" /\ UNCHANGED p_exc
       \/ Raise(<< "get_earth_engine_service raised" >>)
    /\ UNCHANGED p_loc

\* Lines 428-455: Step 3; at most MAX_TILES tiles of the grid are kept.
CalculateGrid ==
    /\ p_pc = "grid"
    /\ \/ \E n \in 1..MaxGridTiles :
            LET kept == IF n > MAX_TILES THEN MAX_TILES ELSE n
            IN /\ p_loc' = [p_loc EXCEPT !.grid_size = n, !.tiles = kept]
               /\ analysis_results' =
                     [Progress(analysis_results, 18,
                               << "Grid calculated", kept >>, "requesting")
                         EXCEPT !.total_tiles = Some(kept)]
               /\ p_pc' = "fetch"
               /\ UNCHANGED p_exc
       \/ /\ analysis_results' =
                Progress(analysis_results, 15,
                         << "Calculating optimal tile grid..." >>,
                         "requesting")
          /\ Raise(<< "calculate_tile_grid raised" >>)
          /\ UNCHANGED p_loc

\* Lines 457-525: Step 4 up to the first download; opening the image
\* collection may raise.
FetchStart ==
    /\ p_pc = "fetch"
    /\ analysis_results' =
          [Progress(analysis_results, 20,
                    << "Starting satellite tile download..." >>,
                    "preprocessing")
              EXCEPT !.total_tiles = Some(p_loc.tiles),
                     !.tiles_fetched = Some(0)]
    /\ \/ p_pc' = "fetching" /\ UNCHANGED p_exc
       \/ Raise(<< "fetch_all_tiles_realtime raised" >>)
    /\ UNCHANGED p_loc

\* Mutant of the callback: the stored progress is the download's own
\* percentage (callback_data['progress']), not its share of 20..65.
TileCallback_rawProgress ==
    /\ p_pc = "fetching"
    /\ p_loc.current < p_loc.tiles
    /\ \E has_ml_data \in BOOLEAN :
        LET current == p_loc.current + 1
            total == p_loc.tiles
        IN /\ p_loc' = [p_loc EXCEPT
                           !.current = current,
                           !.cached_6band_data =
                               @ + (IF has_ml_data THEN 1 ELSE 0)]
           /\ analysis_results' =
                 [Progress(analysis_results, (current * 100) \div total,
                           << "Fetching tile", current, total >>,
                           "preprocessing")
                     EXCEPT !.tiles = Append(@, "tile"),
                            !.total_tiles = Some(total),
                            !.tiles_fetched = Some(current)]
    /\ UNCHANGED <<p_pc, p_exc>>

\* tile_fetching_service.py lines 335-365 and tile_callback, lines 469-508:
\* one download completes, with or without 6-band data.
TileCallback ==
    /\ p_pc = "fetching"
    /\ p_loc.current < p_loc.tiles
    /\ \E has_ml_data \in BOOLEAN :
        LET current == p_loc.current + 1
            total == p_loc.tiles
        IN /\ p_loc' = [p_loc EXCEPT
                           !.current = current,
                           !.cached_6band_data =
                               @ + (IF has_ml_data THEN 1 ELSE 0)]
           /\ analysis_results' =
                 [Progress(analysis_results, 20 + (current * 45) \div total,
                           << "Fetching tile", current, total >>,
                           "preprocessing")
                     EXCEPT !.tiles = Append(@, "tile"),
                            !.total_tiles = Some(total),
                            !.tiles_fetched = Some(current)]
    /\ UNCHANGED <<p_pc, p_exc>>

\* Lines 527-534: fetch_all_tiles_realtime has returned.
FetchDone ==
    /\ p_pc = "fetching"
    /\ p_loc.current = p_loc.tiles
    /\ analysis_results' =
          Progress(analysis_results, 65,
                   << "All tiles fetched", p_loc.tiles >>, "preprocessing")
    /\ p_pc' = "ml_service"
    /\ UNCHANGED <<p_loc, p_exc>>

\* Lines 536-556: Step 5.
GetMlService ==
    /\ p_pc = "ml_service"
    /\ \/ /\ analysis_results' =
                Progress(analysis_results, 76,
                         << "ML service ready - starting analysis..." >>,
                         "processing")
          /\ p_pc' = "mosaic_begin"
          /\ UNCHANGED p_exc
       \/ /\ analysis_results' =
                Progress(analysis_results, 70,
                         << "Preparing ML inference engine..." >>,
                         "processing")
          /\ Raise(<< "get_ml_service raised" >>)
    /\ UNCHANGED p_loc

\* Lines 558-569: Step 6 begins, the cached 6-band tiles are read.
MosaicBegin ==
    /\ p_pc = "mosaic_begin"
    /\ analysis_results' =
          Progress(analysis_results, 80,
                   << "Assembling satellite mosaic for AI analysis..." >>,
                   "ml_inference_tiles")
    /\ p_pc' = "mosaic"
    /\ UNCHANGED <<p_loc, p_exc>>

\* Line 572: len(tile_6band_data) == 0
NoTileData(tile_6band_data) == tile_6band_data = 0

\* Lines 572-604: no usable tile or a failed assembly sets status "error"
\* and raises; otherwise inference is next.
AssembleMosaic ==
    /\ p_pc = "mosaic"
    /\ IF NoTileData(p_loc.cached_6band_data)
       THEN /\ analysis_results' =
                  [Progress(analysis_results, 80,
                            << "No satellite data available for AI analysis" >>,
                            "error")
                      EXCEPT !.status = "error"]
            /\ Raise(<< "No 6-band tile data available for ML inference" >>)
            /\ UNCHANGED p_loc
       ELSE \/ /\ p_loc' = [p_loc EXCEPT !.mosaic = "assembled"]
               /\ analysis_results' =
                     Progress(analysis_results, 82,
                              << "Running AI analysis on merged mosaic..." >>,
                              "processing")
               /\ p_pc' = "inference"
               /\ UNCHANGED p_exc
            \/ /\ p_loc' = [p_loc EXCEPT !.mosaic = "raised"]
               /\ analysis_results' =
                     [Progress(analysis_results, 80,
                               << "Could not assemble satellite mosaic for analysis" >>,
                               "error")
                         EXCEPT !.status = "error"]
               /\ Raise(<< "build_mosaic_from_tiles raised" >>)

\* The results run_inference_on_tile returns: a failure, or a success with
\* its number of blocks and its confidence in percent.
MosaicResults ==
    [success : BOOLEAN, mine_blocks : {0, 2}, confidence : {10, 90}]

\* Mutant of the success test: a failed result is taken as a success.
InferenceFailed_ignored(mosaic_result) == FALSE

\* Line 618: not mosaic_result.get('success', False)
InferenceFailed(mosaic_result) == ~mosaic_result.success

\* Lines 616-769: inference on the mosaic; a result without success sets
\* status "error" and raises, a success stores the mosaic tile entry and
\* the summary.
RunInference ==
    /\ p_pc = "inference"
    /\ \/ \E result \in MosaicResults :
            /\ p_loc' = [p_loc EXCEPT !.inference = "returned",
                                      !.mosaic_result = result]
            /\ IF InferenceFailed(result)
               THEN /\ analysis_results' =
                          [Progress(analysis_results, 82,
                                    << "AI analysis failed",
                                       "inference error" >>, "error")
                              EXCEPT !.status = "error"]
                    /\ Raise(<< "inference error" >>)
               ELSE /\ analysis_results' =
                          [Progress(analysis_results, 86,
                                    << "Mosaic analysis complete" >>,
                                    "processing")
                              EXCEPT !.tiles = Append(@, "mosaic"),
                                     !.summary = Some(result),
                                     !.total_tiles = Some(p_loc.tiles)]
                    /\ p_pc' = "extract"
                    /\ UNCHANGED p_exc
       \/ /\ p_loc' = [p_loc EXCEPT !.inference = "raised"]
          /\ UNCHANGED analysis_results
          /\ Raise(<< "run_inference_on_tile raised" >>)

\* Lines 780-830: Step 7; the mosaic is a detection unless its confidence
\* is below 0.3.
ExtractDetections ==
    /\ p_pc = "extract"
    /\ analysis_results' =
          Progress(analysis_results, 88,
                   << "Extracting mining locations..." >>,
                   "extract_detections")
    /\ p_loc' = [p_loc EXCEPT !.detections =
                    IF p_loc.mosaic_result.confidence < 30 THEN 0 ELSE 1]
    /\ p_pc' = "merge"
    /\ UNCHANGED p_exc

\* Lines 832-870: Step 8; a failed merge is ignored.
MergePolygons ==
    /\ p_pc = "merge"
    /\ \E merged \in BOOLEAN :
          analysis_results' =
             [Progress(analysis_results, 95,
                       << "Merging adjacent mine blocks..." >>,
                       "merge_polygons")
                 EXCEPT !.merged_blocks =
                     IF p_loc.mosaic_result.mine_blocks > 0 /\ merged
                     THEN Some(p_loc.mosaic_result.mine_blocks)
                     ELSE Nothing]
    /\ p_pc' = "complete"
    /\ UNCHANGED <<p_loc, p_exc>>

\* Lines 872-890: Step 9.
Complete ==
    /\ p_pc = "complete"
    /\ analysis_results' =
          [Progress(analysis_results, 100, << "Analysis complete!" >>,
                    "complete")
              EXCEPT !.status = "completed",
                     !.detections = Some(p_loc.detections)]
    /\ p_pc' = "finally"
    /\ UNCHANGED <<p_loc, p_exc>>

\* Mutant of the handler: the status is left as it is.
ExceptHandler_statusKept ==
    /\ p_pc = "except"
    /\ analysis_results' =
          [analysis_results EXCEPT
              !.message = << "Analysis failed:" >> \o p_exc,
              !.current_step = "error"]
    /\ p_pc' = "finally"
    /\ UNCHANGED <<p_loc, p_exc>>

\* Lines 892-902: `except Exception as e` of process_analysis_realtime.
ExceptHandler ==
    /\ p_pc = "except"
    /\ analysis_results' =
          [analysis_results EXCEPT
              !.status = "failed",
              !.message = << "Analysis failed:" >> \o p_exc,
              !.current_step = "error"]
    /\ p_pc' = "finally"
    /\ UNCHANGED <<p_loc, p_exc>>

\* Lines 904-939: the cleanup; process_analysis_realtime returns to
\* safe_process (lines 277-293), whose handler has nothing to catch.
Finally ==
    /\ p_pc = "finally"
    /\ p_pc' = "done"
    /\ UNCHANGED <<analysis_results, p_loc, p_exc>>

PipeStep ==
    \/ StartAnalysis
    \/ StartAnalysisAoiNotFound
    \/ ValidateAoi
    \/ InitServices
    \/ CalculateGrid
    \/ FetchStart
    \/ TileCallback
    \/ FetchDone
    \/ GetMlService
    \/ MosaicBegin
    \/ AssembleMosaic
    \/ RunInference
    \/ ExtractDetections
    \/ MergePolygons
    \/ Complete
    \/ ExceptHandler
    \/ Finally

NextPipe ==
    PipeStep /\ UNCHANGED <<gridVars, inferVars, vecVars, mosaicVars,
                            threshVars, fetchVars, svcVars>>

SpecPipe == Init /\ [][NextPipe]_vars

\* The worker thread runs safe_process to its end (asyncio.run), and every
\* stage call returns or raises: a step that can be taken is taken.
SpecPipeFair == SpecPipe /\ WF_vars(NextPipe)

\* ---- properties of the orchestrator ----

\* The analysis has an entry
Started == p_pc \notin {"idle", "http_error"}

\* Every download has finished and none delivered 6-band data
NoUsableTiles ==
    /\ p_loc.tiles > 0
    /\ p_loc.current = p_loc.tiles
    /\ p_loc.cached_6band_data = 0

\* C17: an analysis with no usable 6-band tile, with a mosaic assembly
\* that raised, or with an inference result that reports failure is never
\* "completed" and goes through none of the later stages; nothing of
\* summary, merged blocks or detections is stored for it; when its run has
\* ended its status is "failed" and its message carries the error.
C17_HardFailureAborts ==
    (/\ Started
     /\ \/ NoUsableTiles
        \/ p_loc.mosaic = "raised"
        \/ p_loc.inference = "returned" /\ ~p_loc.mosaic_result.success) =>
        /\ analysis_results.status # "completed"
        /\ p_pc \notin {"extract", "merge", "complete"}
        /\ analysis_results.summary = Nothing
        /\ analysis_results.merged_blocks = Nothing
        /\ analysis_results.detections = Nothing
        /\ p_pc = "done" =>
              /\ analysis_results.status = "failed"
              /\ p_exc # Nothing
              /\ analysis_results.message = << "Analysis failed:" >> \o p_exc

\* The run of an analysis whose inference returned a result without
\* success has ended.
C17_Witness ==
    /\ p_pc = "done"
    /\ p_loc.mosaic = "assembled"
    /\ p_loc.inference = "returned"
    /\ ~p_loc.mosaic_result.success
    /\ analysis_results.status = "failed"
    /\ p_exc = << "inference error" >>

Terminal == Started /\ analysis_results.status \in {"completed", "failed"}

\* C18: once mosaic assembly has begun the status eventually is
\* "completed" or "failed", and a status that is "completed" or "failed"
\* never changes again.
C18_RunsToCompletionOrFailure ==
    /\ (p_pc = "mosaic") ~> Terminal
    /\ [][Terminal => analysis_results'.status = analysis_results.status]_vars

\* The run of an analysis that went through mosaic assembly has ended with
\* status "completed".
C18_Witness ==
    /\ p_pc = "done"
    /\ p_loc.mosaic = "assembled"
    /\ analysis_results.status = "completed"
    /\ analysis_results.progress = 100

\* The entries tile_callback appended to the analysis's tiles list
PerTileEntries == SelectSeq(analysis_results.tiles, LAMBDA e : e = "tile")

MaxStageTiles == 2

\* A step of the orchestrator outside the awaited inference call.
StagesOrchestratorStep ==
    /\ p_pc # "inference"
    /\ PipeStep
    /\ p_pc = "grid" => p_loc'.grid_size <= MaxStageTiles
    /\ UNCHANGED <<gridVars, inferVars, vecVars, mosaicVars, threshVars,
                   fetchVars, svcVars>>

\* Mutant of the subprocess: it is started when the ML service is ready,
\* before the mosaic is assembled.
StagesSubprocessStep_early ==
    /\ p_pc \in {"mosaic_begin", "mosaic", "inference"}
    /\ \/ InferStart
       \/ ExtractPatch
       \/ PredictBatch
       \/ PredictBatchRaises
       \/ FlushFinal
       \/ FlushFinalRaises
       \/ Normalize
       \/ EmitResult
       \/ HandleException
    /\ UNCHANGED <<gridVars, vecVars, mosaicVars, threshVars, pipeVars,
                   fetchVars, svcVars>>

\* Line 616: while run_inference_on_tile is awaited the subprocess runs
\* main() on the mosaic.
StagesSubprocessStep ==
    /\ p_pc = "inference"
    /\ \/ InferStart
       \/ ExtractPatch
       \/ PredictBatch
       \/ PredictBatchRaises
       \/ FlushFinal
       \/ FlushFinalRaises
       \/ Normalize
       \/ EmitResult
       \/ HandleException
    /\ UNCHANGED <<gridVars, vecVars, mosaicVars, threshVars, pipeVars,
                   fetchVars, svcVars>>

\* Lines 616-769: the subprocess has exited and run_inference_on_tile
\* returns its document, or raises.
StagesInferenceReturns ==
    /\ p_pc = "inference"
    /\ i_pc \in {"exit0", "exit1"}
    /\ RunInference
    /\ p_loc'.inference = "returned" =>
          p_loc'.mosaic_result.success = i_out.success
    /\ UNCHANGED <<gridVars, inferVars, vecVars, mosaicVars, threshVars,
                   fetchVars, svcVars>>

NextStages ==
    \/ StagesOrchestratorStep
    \/ StagesSubprocessStep
    \/ StagesInferenceReturns

SpecStages == Init /\ [][NextStages]_vars

\* ---- properties of the stage sequence ----

\* Every tile fetch of the analysis has finished
FetchFinished ==
    /\ p_loc.tiles > 0
    /\ p_loc.current = p_loc.tiles
    /\ analysis_results.tiles_fetched = Some(p_loc.tiles)

\* The blended probability surface over the whole canvas is complete:
\* every window has been accumulated, none is pending, and the normalised
\* surface covers the H x W image.
SurfaceComplete ==
    /\ patch_count = Cardinality(WindowPositions)
    /\ batch_coords = <<>>
    /\ DOMAIN full_mask_prob = (0..(i_in.H - 1)) \X (0..(i_in.W - 1))

\* C24: mosaic assembly begins, and a mosaic exists or has failed, only
\* when every tile fetch of the analysis has finished; the inference
\* subprocess runs, and an inference outcome exists, only when mosaic
\* assembly has returned the mosaic; vectorization is reached, and a
\* success document exists, only when the blended surface is complete, and
\* the blocks of the document are those of that surface.
C24_StagesInSequence ==
    /\ (Started /\ (p_pc \in {"mosaic_begin", "mosaic"}
                     \/ p_loc.mosaic # "pending")) => FetchFinished
    /\ (i_pc # "idle" \/ (Started /\ (p_pc = "inference"
                                      \/ p_loc.inference # "pending")))
          => (FetchFinished /\ p_loc.mosaic = "assembled")
    /\ i_pc \in {"postprocess", "exit0"} => SurfaceComplete
    /\ i_pc = "exit0" => i_out.mine_blocks = <<"vectorized", full_mask_prob>>
    /\ (Started /\ p_pc \in {"extract", "merge", "complete"}) =>
          (i_pc = "exit0" /\ p_loc.inference = "returned")

\* An analysis of two tiles has completed: both were fetched, the mosaic
\* was assembled, the subprocess blended nine windows and vectorized the
\* surface, and its result was stored.
C24_Witness ==
    /\ p_pc = "done"
    /\ analysis_results.status = "completed"
    /\ p_loc.tiles = 2 /\ p_loc.current = 2
    /\ p_loc.mosaic = "assembled"
    /\ p_loc.inference = "returned"
    /\ i_pc = "exit0"
    /\ patch_count = 9
    /\ i_out.success

(***************************************************************************)
(*     get_earth_engine_service, called by the two worker threads of       *)
(*     ANALYSIS_EXECUTOR (analysis_realtime.py line 424)                   *)
(*                                                                         *)
(* A step is one read or write of a module global; the interpreter may     *)
(* switch threads between any two of them.  A thread's position is the     *)
(* line it executes next.  Each worker runs its analysis under             *)
(* asyncio.run, so an event loop is running where asyncio.Lock() is        *)
(* called and the RuntimeError branch of lines 333-337 is not taken.       *)
(***************************************************************************)

SvcGoto(t, line) == s_pc' = [s_pc EXCEPT ![t] = line]

SvcReturn(t, value) ==
    /\ s_ret' = [s_ret EXCEPT ![t] = value]
    /\ s_pc' = [s_pc EXCEPT ![t] = "returned"]

\* analysis_realtime.py line 424: a worker calls get_earth_engine_service,
\* for its first analysis or for a later one.
GetEarthEngineService(t) ==
    /\ s_pc[t] \in {"idle", "returned"}
    /\ SvcGoto(t, "L330")
    /\ s_ret' = [s_ret EXCEPT ![t] = Nothing]
    /\ UNCHANGED <<earth_engine_service, init_lock, is_initializing,
                   instances>>

\* Lines 330-332: `if _init_lock is None: _init_lock = asyncio.Lock()`;
\* the lock is created and never acquired.
SvcInitLock(t) ==
    /\ s_pc[t] = "L330"
    /\ init_lock' = IF init_lock = None THEN "Lock" ELSE init_lock
    /\ SvcGoto(t, "L340")
    /\ UNCHANGED <<s_ret, earth_engine_service, is_initializing, instances>>

\* Lines 340-341: `if _earth_engine_service is not None: return ...`
SvcCheckService(t) ==
    /\ s_pc[t] = "L340"
    /\ IF earth_engine_service # Nothing
       THEN SvcReturn(t, earth_engine_service)
       ELSE SvcGoto(t, "L345") /\ UNCHANGED s_ret
    /\ UNCHANGED <<earth_engine_service, init_lock, is_initializing,
                   instances>>

\* Line 345: `if _is_initializing:`
SvcCheckInitializing(t) ==
    /\ s_pc[t] = "L345"
    /\ SvcGoto(t, IF is_initializing THEN "L348" ELSE "L352")
    /\ UNCHANGED <<s_ret, earth_engine_service, init_lock, is_initializing,
                   instances>>

\* Lines 346-349: after time.sleep(0.1) the global is returned as it is.
SvcSleepReturn(t) ==
    /\ s_pc[t] = "L348"
    /\ SvcReturn(t, earth_engine_service)
    /\ UNCHANGED <<earth_engine_service, init_lock, is_initializing,
                   instances>>

\* Line 352: `_is_initializing = True`
SvcSetInitializing(t) ==
    /\ s_pc[t] = "L352"
    /\ is_initializing' = TRUE
    /\ SvcGoto(t, "L354")
    /\ UNCHANGED <<s_ret, earth_engine_service, init_lock, instances>>

\* Line 354: `if _earth_engine_service is None:`
SvcCheckAgain(t) ==
    /\ s_pc[t] = "L354"
    /\ SvcGoto(t, IF earth_engine_service = Nothing THEN "L355" ELSE "L357")
    /\ UNCHANGED <<s_ret, earth_engine_service, init_lock, is_initializing,
                   instances>>

\* Line 355: `_earth_engine_service = EarthEngineService()`; __init__
\* (lines 33-63) catches every exception, so the construction completes.
SvcConstruct(t) ==
    /\ s_pc[t] = "L355"
    /\ instances' = instances + 1
    /\ earth_engine_service' = Some(instances')
    /\ SvcGoto(t, "L357")
    /\ UNCHANGED <<s_ret, init_lock, is_initializing>>

\* Line 357: `finally: _is_initializing = False`
SvcClearInitializing(t) ==
    /\ s_pc[t] = "L357"
    /\ is_initializing' = FALSE
    /\ SvcGoto(t, "L359")
    /\ UNCHANGED <<s_ret, earth_engine_service, init_lock, instances>>

\* Line 359: `return _earth_engine_service`
SvcReturnService(t) ==
    /\ s_pc[t] = "L359"
    /\ SvcReturn(t, earth_engine_service)
    /\ UNCHANGED <<earth_engine_service, init_lock, is_initializing,
                   instances>>

SvcStep(t) ==
    \/ GetEarthEngineService(t)
    \/ SvcInitLock(t)
    \/ SvcCheckService(t)
    \/ SvcCheckInitializing(t)
    \/ SvcSleepReturn(t)
    \/ SvcSetInitializing(t)
    \/ SvcCheckAgain(t)
    \/ SvcConstruct(t)
    \/ SvcClearInitializing(t)
    \/ SvcReturnService(t)

NextService ==
    /\ \E t \in Threads : SvcStep(t)
    /\ UNCHANGED <<gridVars, inferVars, vecVars, mosaicVars, threshVars,
                   pipeVars, fetchVars>>

SpecService == Init /\ [][NextService]_vars

\* ---- properties of the service getter ----

\* C28: under any interleaving of the two workers, no call of
\* get_earth_engine_service returns None, at most one EarthEngineService
\* is constructed, and every call returns the same instance.
C28_OneInstanceNeverNone ==
    /\ instances <= 1
    /\ \A t \in Threads : s_pc[t] = "returned" => s_ret[t] # Nothing
    /\ \A t, u \in Threads :
          (s_pc[t] = "returned" /\ s_pc[u] = "returned") => s_ret[t] = s_ret[u]

====
